---- MODULE Spec2Model ----
(***************************************************************************)
(* A model of the binaryen core: the binary codec of src/wasm-binary.h     *)
(* (LEB128, section framing, local compaction, break depths, opcode table) *)
(* and the optimization passes of src/passes.                              *)
(*                                                                         *)
(* Machine integers are bit vectors: a sequence of 0/1 of the type's       *)
(* width, least significant bit first.  Bytes are naturals in 0..255.      *)
(***************************************************************************)
EXTENDS Integers, Sequences, FiniteSets, TLC

VARIABLES
  lebType,    \* LEB test bench: which of U32LEB, U64LEB, S32LEB, S64LEB
  lebValue,   \* the value handed to LEB::write
  lebOut,     \* the bytes LEB::write pushed
  lebRead,    \* what LEB::read returned: [value, used, ok]
  lebPc,      \* "write" -> "read" -> "done" ("idle" outside the bench)
  wasm,       \* the Module handed to the writer
  optimize,   \* TRUE: Preprocessor, OpcodeTable, Postprocessor; FALSE: plain writer
  o,          \* BufferWithRandomAccess: the bytes written so far
  wpc,        \* the writer's position in write()
  pass,       \* which writer writes: "writer", or "pre" and then "post"
  fw,         \* the writer inside writeFunctions: the function, its locals, its body
  opcodeInfo, \* the OpcodeInfo the Preprocessor records into
  opcodeTable,  \* the OpcodeTable the Postprocessor uses
  sections,   \* history: names of the sections started, in order
  patches,    \* history: each back-patch [before, after, at, size]
  mappedLog,  \* history: mappedLocals of each function written
  brLog,      \* history: the scope each written break / switch target names
  corruption, \* what is done to the bytes between the writer and the reader
  rd,         \* the reader (WasmBinaryBuilder) and the module it builds
  program,    \* the Module a pass is run on, as it was: [arena, functions]
  current,    \* the number of the function the pass is in (0 before the first)
  walker,     \* the pass instance that walks the functions one after another
  alone,      \* a pass instance made for the current function alone
  finished,   \* history: what alone left of each function it finished
  ppc,        \* the pass runner's position ("idle" outside the passes)
  uses,       \* ReorderFunctions: the FunctionUseMap the workers share
  workers,    \* the pass runner's workers: the function each is in, the calls to come
  visits,     \* history: how many times each function was handed to a worker
  inserted,   \* history: a worker's visitCall put a new key in uses
  refine,     \* refineBySize: start, bits and the functions in their order
  returns     \* history: the block returns SimplifyLocals came to, as it found them,
              \* and the segments CodePushing went through

lebVars == <<lebType, lebValue, lebOut, lebRead, lebPc>>
codecVars == <<wasm, optimize, o, wpc, pass, fw, opcodeInfo, opcodeTable, sections,
               patches, mappedLog, brLog, corruption, rd>>

walkVars == <<program, current, walker, alone, finished, ppc>>
countVars == <<uses, workers, visits, inserted>>
passVars == <<walkVars, countVars, refine, returns>>

vars == <<lebVars, codecVars, passVars>>

----------------------------------------------------------------------------
(* Bit vectors *)

W32 == 32
W64 == 64

Pow2(n) == 2 ^ n

Zero(w) == [i \in 1..w |-> 0]

\* T(n) for a small natural n
FromNat(n, w) == [i \in 1..w |-> IF i <= 31 THEN (n \div Pow2(i - 1)) % 2 ELSE 0]

\* bits 8k+1 .. 8k+8 of v as a byte; bits past the end of v are 0
ByteAt(v, k) ==
  LET bit(i) == IF 8 * k + i <= Len(v) THEN v[8 * k + i] ELSE 0
  IN  bit(1) + 2 * bit(2) + 4 * bit(3) + 8 * bit(4)
        + 16 * bit(5) + 32 * bit(6) + 64 * bit(7) + 128 * bit(8)

\* the natural a bit vector holds (only used where the value is below 2^31)
ToNat(v) == ByteAt(v, 0) + 256 * ByteAt(v, 1) + 65536 * ByteAt(v, 2) + 16777216 * ByteAt(v, 3)

IsZero(v) == \A i \in 1..Len(v) : v[i] = 0
IsNegative(v) == v[Len(v)] = 1

\* x << s, bits shifted out are lost
Shl(v, s) == [i \in 1..Len(v) |-> IF i - s >= 1 THEN v[i - s] ELSE 0]
\* x >> s for an unsigned type
ShrU(v, s) == [i \in 1..Len(v) |-> IF i + s <= Len(v) THEN v[i + s] ELSE 0]
\* x >> s for a signed type (arithmetic)
ShrS(v, s) == [i \in 1..Len(v) |-> IF i + s <= Len(v) THEN v[i + s] ELSE v[Len(v)]]
BitOr(a, b) == [i \in 1..Len(a) |-> IF a[i] = 1 \/ b[i] = 1 THEN 1 ELSE 0]

\* temp & 127
Low7(v) == v[1] + 2 * v[2] + 4 * v[3] + 8 * v[4] + 16 * v[5] + 32 * v[6] + 64 * v[7]

\* int32_t(temp) != -1
Int32NotMinusOne(v) == \E i \in 1..W32 : v[i] = 0

----------------------------------------------------------------------------
(* LEB<T, MiniT> *)

LEBTypes == {"U32LEB", "U64LEB", "S32LEB", "S64LEB"}
LEBSigned(t) == t \in {"S32LEB", "S64LEB"}
LEBWidth(t) == IF t \in {"U32LEB", "S32LEB"} THEN W32 ELSE W64

\* a variant of hasMore that compares temp with T(-1) at the full width of T
HasMoreFullWidth(value, temp, byte, signed) ==
  IF signed
    THEN \/ (~IsZero(temp) /\ (\E i \in 1..Len(temp) : temp[i] = 0))
         \/ (~IsNegative(value) /\ (byte \div 64) % 2 = 1)
         \/ (IsNegative(value) /\ (byte \div 64) % 2 = 0)
    ELSE ~IsZero(temp)

\* a variant of hasMore that forgets the sign of the last byte
HasMoreNoSign(value, temp, byte, signed) ==
  IF signed
    THEN ~IsZero(temp) /\ Int32NotMinusOne(temp)
    ELSE ~IsZero(temp)

HasMore(value, temp, byte, signed) ==
  IF signed
    THEN \/ (~IsZero(temp) /\ Int32NotMinusOne(temp))
         \/ (~IsNegative(value) /\ (byte \div 64) % 2 = 1)
         \/ (IsNegative(value) /\ (byte \div 64) % 2 = 0)
    ELSE ~IsZero(temp)

RECURSIVE LEBWriteLoop(_, _, _)
LEBWriteLoop(value, temp, signed) ==
  LET push(byte, next) ==
        IF HasMore(value, next, byte, signed)
          THEN <<byte + 128>> \o LEBWriteLoop(value, next, signed)
          ELSE <<byte>>
  IN  push(Low7(temp), IF signed THEN ShrS(temp, 7) ELSE ShrU(temp, 7))

\* LEB::write: the bytes pushed to out
LEBWrite(value, signed) == LEBWriteLoop(value, value, signed)

RECURSIVE LEBWriteAtLoop(_, _, _, _, _)
LEBWriteAtLoop(value, temp, signed, offset, minimum) ==
  LET store(byte, next) ==
        IF HasMore(value, next, byte, signed) \/ offset + 1 < minimum
          THEN <<byte + 128>> \o LEBWriteAtLoop(value, next, signed, offset + 1, minimum)
          ELSE <<byte>>
  IN  store(Low7(temp), IF signed THEN ShrS(temp, 7) ELSE ShrU(temp, 7))

\* a variant of writeAt that pads with no continuation bytes
LEBWriteAtBytesUnpadded(value, signed, minimum) == LEBWriteAtLoop(value, value, signed, 0, 0)

\* the bytes LEB::writeAt stores at out[at], out[at + 1], ...
LEBWriteAtBytes(value, signed, minimum) == LEBWriteAtLoop(value, value, signed, 0, minimum)

\* out after LEB::writeAt(out, at, minimum)
LEBWriteAt(out, at, value, signed, minimum) ==
  LET store(bytes) ==
        [i \in 1..Len(out) |->
           IF i - 1 >= at /\ i - 1 < at + Len(bytes) THEN bytes[i - at] ELSE out[i]]
  IN  store(LEBWriteAtBytes(value, signed, minimum))

RECURSIVE LEBReadLoop(_, _, _, _)
\* the while (1) loop of LEB::read; get() is input[pos++] and fails past the end
LEBReadLoop(input, pos, value, shift) ==
  IF pos >= Len(input)
    THEN [ok |-> FALSE, value |-> value, pos |-> pos, shift |-> shift, byte |-> 0]
    ELSE LET got(byte, v) ==
               IF byte < 128
                 THEN [ok |-> TRUE, value |-> v, pos |-> pos + 1, shift |-> shift,
                       byte |-> byte]
                 ELSE LEBReadLoop(input, pos + 1, v, shift + 7)
         IN  got(input[pos + 1],
                 BitOr(value, Shl(FromNat(input[pos + 1] % 128, Len(value)), shift)))

\* LEB::read starting at input[pos]: [ok, value, pos]
LEBRead(input, pos, signed, w) ==
  LET extend(r, sext) ==
        IF r.ok /\ signed /\ (r.byte \div 64) % 2 = 1 /\ sext > 0
          THEN [ok |-> TRUE, value |-> ShrS(Shl(r.value, sext), sext), pos |-> r.pos]
          ELSE [ok |-> r.ok, value |-> r.value, pos |-> r.pos]
      read(r) == extend(r, w - (r.shift + 7))
  IN  read(LEBReadLoop(input, pos, Zero(w), 0))

----------------------------------------------------------------------------
(* Names, types, literals and the AST *)

\* A Name is its characters (a sequence of char codes); the null Name is <<>>.
NullName == <<>>

RECURSIVE Digits(_)
\* std::to_string(n)
Digits(n) == IF n < 10 THEN <<48 + n>> ELSE Digits(n \div 10) \o <<48 + (n % 10)>>

\* getNextLabel: "label$" + std::to_string(nextLabel)
LabelName(n) == <<108, 97, 98, 101, 108, 36>> \o Digits(n)

\* Name::fromInt(i)
NameFromInt(i) == Digits(i)

\* "impossible-continue", the entry an if arm pushes on the break stack
IMPOSSIBLE_CONTINUE ==
  <<105, 109, 112, 111, 115, 115, 105, 98, 108, 101, 45, 99, 111, 110, 116, 105, 110, 117, 101>>

ValueTypes == <<"i32", "i64", "f32", "f64">>

binaryWasmType(type) ==
  CASE type = "none" -> 0
    [] type = "i32" -> 1
    [] type = "i64" -> 2
    [] type = "f32" -> 3
    [] type = "f64" -> 4

TypeWidth(type) == IF type \in {"i32", "f32"} THEN W32 ELSE W64
isWasmTypeFloat(type) == type \in {"f32", "f64"}

\* a Literal: its type and its bits
Literal(type, bits) == [type |-> type, bits |-> bits]
NoneLiteral == [type |-> "none", bits |-> <<>>]

\* An Expression.  Every node has all the fields; a kind uses the ones it has:
\*   Block: name, kids (the list)       Loop: name (out), name2 (in), kids <<body>>
\*   If: kids <<condition, ifTrue, ifFalse>>
\*   Break: name, kids <<value, condition>>
\*   Switch: targets, name (default_), kids <<value, condition>>
\*   Call: name (target), kids (operands)
\*   GetLocal: idx    SetLocal: idx, kids <<value>>
\*   Load: bytes, signed, align, offset, kids <<ptr>>
\*   Store: bytes, align, offset, kids <<ptr, value>>
\*   Const: lit    Unary, Binary: op, kids    Select: kids <<ifTrue, ifFalse, condition>>
\*   Return: kids <<value>>
\* An absent child (a null pointer) is the node of kind "Null".
Null ==
  [k |-> "Null", name |-> NullName, name2 |-> NullName, targets |-> <<>>, idx |-> 0,
   op |-> "", type |-> "none", bytes |-> 0, signed |-> FALSE, align |-> 0,
   offset |-> 0, lit |-> <<>>, kids |-> <<>>]

makeNop == [Null EXCEPT !.k = "Nop"]
makeUnreachable == [Null EXCEPT !.k = "Unreachable"]
makeBlock(name, list) == [Null EXCEPT !.k = "Block", !.name = name, !.kids = list]
makeLoop(out, in, body) ==
  [Null EXCEPT !.k = "Loop", !.name = out, !.name2 = in, !.kids = <<body>>]
makeIf(condition, ifTrue, ifFalse) ==
  [Null EXCEPT !.k = "If", !.kids = <<condition, ifTrue, ifFalse>>]
makeBreak(name, value, condition) ==
  [Null EXCEPT !.k = "Break", !.name = name, !.kids = <<value, condition>>]
makeSwitch(targets, default, value, condition) ==
  [Null EXCEPT !.k = "Switch", !.targets = targets, !.name = default,
               !.kids = <<value, condition>>]
makeCall(target, operands, type) ==
  [Null EXCEPT !.k = "Call", !.name = target, !.kids = operands, !.type = type]
makeGetLocal(index, type) == [Null EXCEPT !.k = "GetLocal", !.idx = index, !.type = type]
makeSetLocal(index, value) ==
  [Null EXCEPT !.k = "SetLocal", !.idx = index, !.kids = <<value>>, !.type = value.type]
makeLoad(bytes, signed, offset, align, ptr, type) ==
  [Null EXCEPT !.k = "Load", !.bytes = bytes, !.signed = signed, !.offset = offset,
               !.align = align, !.kids = <<ptr>>, !.type = type]
makeStore(bytes, offset, align, ptr, value, type) ==
  [Null EXCEPT !.k = "Store", !.bytes = bytes, !.offset = offset, !.align = align,
               !.kids = <<ptr, value>>, !.type = type]
makeConst(type, bits) == [Null EXCEPT !.k = "Const", !.type = type, !.lit = bits]
makeUnary(op, value, type) ==
  [Null EXCEPT !.k = "Unary", !.op = op, !.kids = <<value>>, !.type = type]
makeBinary(op, left, right, type) ==
  [Null EXCEPT !.k = "Binary", !.op = op, !.kids = <<left, right>>, !.type = type]
makeSelect(ifTrue, ifFalse, condition) ==
  [Null EXCEPT !.k = "Select", !.kids = <<ifTrue, ifFalse, condition>>,
               !.type = ifTrue.type]
makeReturn(value) == [Null EXCEPT !.k = "Return", !.kids = <<value>>]

\* a Function: its name, the name of its type, its params and vars, its body
makeFunction(name, type, params, varTypes, body) ==
  [name |-> name, type |-> type, params |-> params, vars |-> varTypes, body |-> body]

getNumParams(func) == Len(func.params)
getVarIndexBase(func) == Len(func.params)
getNumLocals(func) == Len(func.params) + Len(func.vars)
getLocalType(func, index) ==
  IF index < Len(func.params) THEN func.params[index + 1]
                              ELSE func.vars[index - Len(func.params) + 1]

----------------------------------------------------------------------------
(* BufferWithRandomAccess *)

\* the byte bits 8k .. 8k+7 of a bit vector hold
ByteOf(v, k) == ToNat(SubSeq(v, 8 * k + 1, 8 * k + 8))

\* o << int32_t(x), o << int64_t(x): little endian
IntBytes(v) == [k \in 1..(Len(v) \div 8) |-> ByteOf(v, k - 1)]

\* getInt32, getInt64: the bits of little-endian bytes
BytesToBits(bytes) ==
  [i \in 1..(8 * Len(bytes)) |-> (bytes[((i - 1) \div 8) + 1] \div Pow2((i - 1) % 8)) % 2]

U32(n) == FromNat(n, W32)

\* o << U32LEB(n) for a small n
U32LEBBytes(n) == LEBWrite(U32(n), FALSE)

\* writeInlineString, writeInlineBuffer
InlineString(str) == U32LEBBytes(Len(str)) \o str

\* writeU32LEBPlaceholder: o << int32_t(0) << int8_t(0)
Placeholder == <<0, 0, 0, 0, 0>>

\* o.writeAt(i, U32LEB(x))
BufferWriteAt(buf, i, x) == LEBWriteAt(buf, i, U32(x), FALSE, 5)

----------------------------------------------------------------------------
(* BinaryConsts *)

Magic == 1836278016
Version == 11
Basic == 64

Nop == 0
Block == 1
Loop == 2
If == 3
Else == 4
Select == 5
Br == 6
BrIf == 7
TableSwitch == 8
Return == 9
Unreachable == 10
End == 15
I32Const == 16
I64Const == 17
F64Const == 18
F32Const == 19
GetLocal == 20
SetLocal == 21
CallFunction == 22
I32LoadMem8S == 32
I32LoadMem8U == 33
I32LoadMem16S == 34
I32LoadMem16U == 35
I32LoadMem == 42
I64LoadMem == 43
I32StoreMem8 == 46
I32StoreMem16 == 47
I32StoreMem == 51
I64StoreMem == 52
I32Add == 64
I32Clz == 87
I64Add == 91
I64Clz == 114
F32Add == 117
F64Add == 137

MAX_OPCODE == 256

SectionMemory == <<109, 101, 109, 111, 114, 121>>                  \* "memory"
SectionSignatures == <<116, 121, 112, 101>>                        \* "type"
SectionImportTable == <<105, 109, 112, 111, 114, 116>>             \* "import"
SectionFunctionSignatures == <<102, 117, 110, 99, 116, 105, 111, 110>>  \* "function"
SectionFunctions == <<99, 111, 100, 101>>                          \* "code"
SectionExportTable == <<101, 120, 112, 111, 114, 116>>             \* "export"
SectionDataSegments == <<100, 97, 116, 97>>                        \* "data"
SectionFunctionTable == <<116, 97, 98, 108, 101>>                  \* "table"
SectionNames == <<110, 97, 109, 101>>                              \* "name"
SectionStart == <<115, 116, 97, 114, 116>>                         \* "start"
SectionOpcodes == <<111, 112, 99, 111, 100, 101>>                  \* "opcode"

\* F(x), with x evaluated once, before F is
Bound(x, F(_)) == CHOOSE result \in { F(value) : value \in {x} } : TRUE

RECURSIVE FlattenAll(_)
FlattenAll(parts) == IF parts = <<>> THEN <<>> ELSE Head(parts) \o FlattenAll(Tail(parts))

\* the concatenation of a sequence of byte sequences
Flatten(parts) == Bound(parts \o <<>>, FlattenAll)

----------------------------------------------------------------------------
(* OpcodeEntry, OpcodeInfo *)

\* an immediate handed to emitExpression: t is U32LEB, S32LEB, S64LEB, float or double
Imm(t, v) == [t |-> t, v |-> v]
ImmU32(n) == Imm("U32LEB", U32(n))

\* the bytes o << x pushes for an immediate
ImmBytes(imm) ==
  CASE imm.t = "U32LEB" -> LEBWrite(imm.v, FALSE)
    [] imm.t \in {"S32LEB", "S64LEB"} -> LEBWrite(imm.v, TRUE)
    [] imm.t \in {"float", "double"} -> IntBytes(imm.v)

\* the Literal the OpcodeEntry constructors make of an immediate
ImmLiteral(imm) ==
  CASE imm.t \in {"U32LEB", "S32LEB"} -> Literal("i32", imm.v)
    [] imm.t = "S64LEB" -> Literal("i64", imm.v)
    [] imm.t = "float" -> Literal("f32", imm.v)
    [] imm.t = "double" -> Literal("f64", imm.v)

OpcodeEntry(op, imms) ==
  [op |-> op, size |-> Len(imms),
   values |-> [j \in 1..2 |-> IF j <= Len(imms) THEN ImmLiteral(imms[j]) ELSE NoneLiteral]]

\* Literal::ltU
UnsignedLt(a, b) ==
  \E i \in 1..Len(a) : a[i] = 0 /\ b[i] = 1 /\ \A j \in (i + 1)..Len(a) : a[j] = b[j]

\* the exponent is all ones and the mantissa is not zero
IsNaN(v) ==
  LET m == IF Len(v) = W32 THEN 23 ELSE 52
  IN  /\ \A i \in (m + 1)..(Len(v) - 1) : v[i] = 1
      /\ \E i \in 1..m : v[i] = 1

Magnitude(v) == SubSeq(v, 1, Len(v) - 1)

\* Literal::lt: the < of float and double
FloatLt(a, b) ==
  /\ ~IsNaN(a)
  /\ ~IsNaN(b)
  /\ ~(IsZero(Magnitude(a)) /\ IsZero(Magnitude(b)))
  /\ \/ IsNegative(a) /\ ~IsNegative(b)
     \/ ~IsNegative(a) /\ ~IsNegative(b) /\ UnsignedLt(Magnitude(a), Magnitude(b))
     \/ IsNegative(a) /\ IsNegative(b) /\ UnsignedLt(Magnitude(b), Magnitude(a))

unsafeLessThan(x, y) ==
  IF x.type = "none" THEN FALSE
  ELSE IF isWasmTypeFloat(x.type) THEN FloatLt(x.bits, y.bits)
  ELSE UnsignedLt(x.bits, y.bits)

\* OpcodeEntry::operator<
EntryLess(a, b) ==
  IF a.op < b.op THEN TRUE
  ELSE IF a.op > b.op THEN FALSE
  ELSE IF unsafeLessThan(a.values[1], b.values[1]) THEN TRUE
  ELSE IF unsafeLessThan(b.values[1], a.values[1]) THEN FALSE
  ELSE unsafeLessThan(a.values[2], b.values[2])

\* the key equivalence of std::map<OpcodeEntry, ...>
EntryEquiv(a, b) == ~EntryLess(a, b) /\ ~EntryLess(b, a)

\* OpcodeInfo: freqs, and entries as the map's (key, count) pairs in key order
NewOpcodeInfo == [freqs |-> [c \in 0..(MAX_OPCODE - 1) |-> 0], entries |-> <<>>]

\* the position of the key equivalent to entry in a map, 0 if there is none
MapFind(pairs, entry) ==
  LET first(found) == IF found = {} THEN 0 ELSE CHOOSE i \in found : \A j \in found : i <= j
  IN  first({i \in 1..Len(pairs) : EntryEquiv(pairs[i].key, entry)})

\* map[entry]++, a missing key is inserted in key order with 0
MapIncrement(pairs, entry) ==
  LET insert(before) ==
        SubSeq(pairs, 1, before) \o <<[key |-> entry, val |-> 1]>>
          \o SubSeq(pairs, before + 1, Len(pairs))
      update(at) ==
        IF at > 0 THEN [pairs EXCEPT ![at].val = @ + 1]
        ELSE insert(Cardinality({i \in 1..Len(pairs) : EntryLess(pairs[i].key, entry)}))
  IN  update(MapFind(pairs, entry))

MapGet(pairs, entry) ==
  LET get(at) == IF at > 0 THEN pairs[at].val ELSE 0 IN get(MapFind(pairs, entry))

\* OpcodeInfo::record
record(info, entry) ==
  [freqs |-> [info.freqs EXCEPT ![entry.op] = @ + 1],
   entries |-> MapIncrement(info.entries, entry)]

\* OpcodeInfo::cost
cost(info, entry) == MapGet(info.entries, entry) * entry.size

----------------------------------------------------------------------------
(* OpcodeTable: the used codes with their entries, in code order *)

NoTable == <<>>

tableUsed(table, code) == \E i \in 1..Len(table) : table[i].code = code
tableEntry(table, code) == table[CHOOSE i \in 1..Len(table) : table[i].code = code].entry

\* opcodeTable.mapping.find(entry): the code, or -1 for mapping.end()
mappingFind(table, entry) ==
  LET code(found) == IF found = {} THEN -1 ELSE table[CHOOSE i \in found : TRUE].code
  IN  code({i \in 1..Len(table) : EntryEquiv(table[i].entry, entry)})

\* the entries worth a code, in map order
Candidates(info) ==
  LET nth(keep, k) == CHOOSE i \in keep : Cardinality({j \in keep : j < i}) = k - 1
      kept(keep) == [k \in 1..Cardinality(keep) |-> info.entries[nth(keep, k)].key]
  IN  kept({i \in 1..Len(info.entries) : cost(info, info.entries[i].key) > 0})

\* the comparator of the std::sort of the constructor
CostBefore(info, left, right) ==
  LET before(leftCost, rightCost) ==
        IF leftCost > rightCost THEN TRUE
        ELSE IF leftCost < rightCost THEN FALSE
        ELSE left.op < right.op
  IN  before(cost(info, left), cost(info, right))

RECURSIVE SortedOrders(_, _, _)
\* the orders std::sort may leave the candidates in: entries the comparator
\* does not order may come out either way
SortedOrders(info, cands, rest) ==
  IF rest = {} THEN {<<>>}
  ELSE UNION { { <<cands[x]>> \o t : t \in SortedOrders(info, cands, rest \ {x}) } :
               x \in {x \in rest : \A y \in rest : ~CostBefore(info, cands[y], cands[x])} }

RECURSIVE FillTableAnyCode(_, _, _, _)
\* a fill loop that does not look at freqs: each code gets the next entry
FillTableAnyCode(info, order, i, next) ==
  IF i >= MAX_OPCODE \/ next > Len(order) THEN <<>>
  ELSE <<[code |-> i, entry |-> order[next]]>> \o FillTableAnyCode(info, order, i + 1, next + 1)

RECURSIVE FillTable(_, _, _, _)
\* the fill loop: a code no instruction uses gets the next entry of order
FillTable(info, order, i, next) ==
  IF i >= MAX_OPCODE \/ next > Len(order) THEN <<>>
  ELSE IF info.freqs[i] > 0 THEN FillTable(info, order, i + 1, next)
  ELSE <<[code |-> i, entry |-> order[next]]>> \o FillTable(info, order, i + 1, next + 1)

\* the tables OpcodeTable(info) may build
OpcodeTables(info) ==
  LET tables(cands) ==
        { FillTable(info, order, 0, 1) : order \in SortedOrders(info, cands, 1..Len(cands)) }
  IN  tables(Candidates(info))

----------------------------------------------------------------------------
(* The expression writer *)

\* The writer while it writes a body: the buffer o, breakStack, and what the
\* Preprocessor records.  scopes and log are history: where each entry of
\* breakStack was pushed, and for each break index written, the entry it names.
\* cx is what the body is written with: the module, mappedLocals, the kind of
\* writer ("writer", "pre", "post") and the opcode table.

\* emitExpression(op, immediates...) of the three writers
emitExpression(s, cx, op, imms) ==
  LET post(long, code) ==
        IF Len(imms) = 0
          THEN [s EXCEPT !.o = @ \o long, !.ok = @ /\ ~tableUsed(cx.table, op)]
          ELSE IF code >= 0 THEN [s EXCEPT !.o = @ \o <<code>>]
                            ELSE [s EXCEPT !.o = @ \o long]
      emit(long, entry) ==
        CASE cx.kind = "writer" -> [s EXCEPT !.o = @ \o long]
          [] cx.kind = "pre" -> [s EXCEPT !.o = @ \o long, !.info = record(@, entry)]
          [] cx.kind = "post" -> post(long, mappingFind(cx.table, entry))
  IN  IF ~s.ok THEN s
      ELSE emit(<<op>> \o Flatten([j \in 1..Len(imms) |-> ImmBytes(imms[j])]),
                OpcodeEntry(op, imms))

\* breakStack.push_back(name)
pushBreak(s, name, which) ==
  [s EXCEPT !.breakStack = Append(@, name),
            !.scopes = Append(@, [pos |-> Len(s.o), which |-> which])]

\* breakStack.pop_back()
popBreak(s) ==
  [s EXCEPT !.breakStack = SubSeq(@, 1, Len(@) - 1),
            !.scopes = SubSeq(@, 1, Len(@) - 1)]

\* a variant of getBreakIndex that searches breakStack from the bottom
getBreakIndexFromBottom(breakStack, name) ==
  LET found == {i \in 1..Len(breakStack) : breakStack[i] = name}
  IN  IF found = {} THEN -1
      ELSE Len(breakStack) - (CHOOSE i \in found : \A j \in found : i <= j)

\* getBreakIndex: -1 where the code aborts
getBreakIndex(breakStack, name) ==
  LET found == {i \in 1..Len(breakStack) : breakStack[i] = name}
  IN  IF found = {} THEN -1
      ELSE Len(breakStack) - (CHOOSE i \in found : \A j \in found : j <= i)

\* history: a break to name is written at the end of o, with this break stack
noteBreak(s, name, index) ==
  IF index < 0 THEN [s EXCEPT !.ok = FALSE]
  ELSE [s EXCEPT !.log = Append(@, [at |-> Len(s.o), index |-> index, name |-> name,
                                     breakStack |-> s.breakStack, scopes |-> s.scopes])]

\* getFunctionIndex: -1 where the code aborts
getFunctionIndex(module, name) ==
  LET found == {i \in 1..Len(module.functions) : module.functions[i].name = name}
  IN  IF found = {} THEN -1 ELSE (CHOOSE i \in found : TRUE) - 1

\* getFunctionTypeIndex: -1 where the code aborts
getFunctionTypeIndex(module, type) ==
  LET found == {i \in 1..Len(module.functionTypes) : module.functionTypes[i].name = type}
  IN  IF found = {} THEN -1 ELSE (CHOOSE i \in found : \A j \in found : i <= j) - 1

Log2(v) == CHOOSE n \in 0..31 : Pow2(n) = v

\* the opcode of a Load; -1 where the code aborts
LoadCode(curr) ==
  CASE curr.type = "i32" /\ curr.bytes = 1 -> IF curr.signed THEN I32LoadMem8S ELSE I32LoadMem8U
    [] curr.type = "i32" /\ curr.bytes = 2 -> IF curr.signed THEN I32LoadMem16S ELSE I32LoadMem16U
    [] curr.type = "i32" /\ curr.bytes = 4 -> I32LoadMem
    [] curr.type = "i64" /\ curr.bytes = 8 -> I64LoadMem
    [] OTHER -> -1

\* the opcode of a Store; -1 where the code aborts
StoreCode(curr) ==
  CASE curr.type = "i32" /\ curr.bytes = 1 -> I32StoreMem8
    [] curr.type = "i32" /\ curr.bytes = 2 -> I32StoreMem16
    [] curr.type = "i32" /\ curr.bytes = 4 -> I32StoreMem
    [] curr.type = "i64" /\ curr.bytes = 8 -> I64StoreMem
    [] OTHER -> -1

\* the opcode TYPED_CODE(Add) picks for the type of the operands
AddCode(type) ==
  CASE type = "i32" -> I32Add
    [] type = "i64" -> I64Add
    [] type = "f32" -> F32Add
    [] type = "f64" -> F64Add
    [] OTHER -> -1

\* getReachableWasmType
getReachableWasmType(a, b) == IF a # "unreachable" THEN a ELSE b

\* std::map<Index, size_t>: m[k], 0 for a key that is not there
MapAt(m, k) == IF k \in DOMAIN m THEN m[k] ELSE 0

\* m[k] = v
MapPut(m, k, v) == [x \in (DOMAIN m) \cup {k} |-> IF x = k THEN v ELSE m[x]]

EmptyMap == [x \in {} |-> 0]

RECURSIVE mapParams(_, _, _)
\* the first loop of mapLocals: mappedLocals[i] = mappedLocals.size()
mapParams(function, i, mapped) ==
  IF i >= getNumParams(function) THEN mapped
  ELSE mapParams(function, i + 1, MapPut(mapped, i, Cardinality(DOMAIN mapped)))

\* the second loop of mapLocals: numLocalsByType[type]++ for each var
countLocals(function, counts) ==
  [t \in DOMAIN counts |->
     counts[t] + Cardinality({j \in 1..Len(function.vars) : function.vars[j] = ValueTypes[t]})]

\* the place of a type in the order i32, i64, f32, f64
TypeRank(type) == CHOOSE t \in 1..4 : ValueTypes[t] = type

\* a variant of the third loop that starts every type at getVarIndexBase()
mapVarsNoOffset(function, counts, mapped) ==
  [x \in (DOMAIN mapped) \cup (getVarIndexBase(function)..(getNumLocals(function) - 1)) |->
     IF x >= getVarIndexBase(function) /\ x < getNumLocals(function)
       THEN getVarIndexBase(function)
            + Cardinality({j \in getVarIndexBase(function)..x :
                           getLocalType(function, j) = getLocalType(function, x)}) - 1
       ELSE mapped[x]]

\* the third loop of mapLocals: local i goes after the params, after the locals
\* of the types before its own, at its place among the locals of its type
mapVars(function, counts, mapped) ==
  [x \in (DOMAIN mapped) \cup (getVarIndexBase(function)..(getNumLocals(function) - 1)) |->
     IF x >= getVarIndexBase(function) /\ x < getNumLocals(function)
       THEN LET rank == TypeRank(getLocalType(function, x))
                index == getVarIndexBase(function)
                         + (IF rank > 1 THEN counts[1] ELSE 0)
                         + (IF rank > 2 THEN counts[2] ELSE 0)
                         + (IF rank > 3 THEN counts[3] ELSE 0)
                currLocalsByType ==
                  Cardinality({j \in getVarIndexBase(function)..x :
                               getLocalType(function, j) = getLocalType(function, x)})
            IN  index + currLocalsByType - 1
       ELSE mapped[x]]

\* mapLocals, from the mappedLocals and numLocalsByType it finds:
\* [mappedLocals, numLocalsByType]
mapLocals(function, mapped, counts) ==
  LET n == countLocals(function, counts)
  IN  [mappedLocals |-> mapVars(function, n, mapParams(function, 0, mapped)),
       numLocalsByType |-> n]

NoLocalsByType == [t \in 1..4 |-> 0]

RECURSIVE BreakSeekerHas(_, _)
\* BreakSeeker::has: some descendant break or switch names the target
BreakSeekerHas(curr, target) ==
  \/ curr.k = "Break" /\ curr.name = target
  \/ curr.k = "Switch" /\ (curr.name = target \/ \E i \in 1..Len(curr.targets) : curr.targets[i] = target)
  \/ \E i \in 1..Len(curr.kids) : BreakSeekerHas(curr.kids[i], target)

\* What is left to do of a body is a list of items, the next one first:
\*   visit: recurse(node)        emit: emitExpression(op, imms)
\*   push, pop: breakStack       br, switch: what visitBreak and visitSwitch do
\*   abort: abort()              once the children of the node are written
Item(t) ==
  [t |-> t, node |-> Null, op |-> 0, imms |-> <<>>, name |-> NullName, which |-> ""]
VisitItem(node) == [Item("visit") EXCEPT !.node = node]
EmitItem(op, imms) == [Item("emit") EXCEPT !.op = op, !.imms = imms]
PushItem(name, which) == [Item("push") EXCEPT !.name = name, !.which = which]
PopItem == Item("pop")
AbortItem == Item("abort")

\* recurse(child) for each child of a list
visitList(list) == [i \in 1..Len(list) |-> VisitItem(list[i])]

\* recurse(curr) if curr is there
visitMaybe(curr) == IF curr.k = "Null" THEN <<>> ELSE <<VisitItem(curr)>>

\* recursePossibleBlockContents
recursePossibleBlockContents(curr) ==
  IF curr.k # "Block" \/ (curr.name # NullName /\ BreakSeekerHas(curr, curr.name))
    THEN <<VisitItem(curr)>>
    ELSE visitList(curr.kids)

visitBlock(curr) ==
  <<EmitItem(Block, <<>>), PushItem(curr.name, "block")>>
    \o visitList(curr.kids)
    \o <<PopItem, EmitItem(End, <<>>)>>

visitIf(curr) ==
  <<VisitItem(curr.kids[1]), EmitItem(If, <<>>), PushItem(IMPOSSIBLE_CONTINUE, "if")>>
    \o recursePossibleBlockContents(curr.kids[2])
    \o <<PopItem>>
    \o (IF curr.kids[3].k = "Null" THEN <<>>
        ELSE <<EmitItem(Else, <<>>), PushItem(IMPOSSIBLE_CONTINUE, "if")>>
               \o recursePossibleBlockContents(curr.kids[3])
               \o <<PopItem>>)
    \o <<EmitItem(End, <<>>)>>

visitLoop(curr) ==
  <<EmitItem(Loop, <<>>), PushItem(curr.name, "out"), PushItem(curr.name2, "in"),
    VisitItem(curr.kids[1]), PopItem, PopItem, EmitItem(End, <<>>)>>

visitBreak(curr) ==
  visitMaybe(curr.kids[1]) \o visitMaybe(curr.kids[2]) \o <<[Item("br") EXCEPT !.node = curr]>>

visitSwitch(curr) ==
  visitMaybe(curr.kids[1]) \o <<VisitItem(curr.kids[2]), [Item("switch") EXCEPT !.node = curr]>>

visitCall(curr, cx) ==
  LET index == getFunctionIndex(cx.wasm, curr.name)
  IN  visitList(curr.kids)
        \o <<IF index < 0 THEN AbortItem
             ELSE EmitItem(CallFunction, <<ImmU32(Len(curr.kids)), ImmU32(index)>>)>>

visitGetLocal(curr, cx) ==
  <<EmitItem(GetLocal, <<ImmU32(MapAt(cx.mappedLocals, curr.idx))>>)>>

visitSetLocal(curr, cx) ==
  <<VisitItem(curr.kids[1]),
    EmitItem(SetLocal, <<ImmU32(MapAt(cx.mappedLocals, curr.idx))>>)>>

emitMemoryAccess(code, alignment, bytes, offset) ==
  IF code < 0 THEN AbortItem
  ELSE EmitItem(code, <<ImmU32(Log2(IF alignment # 0 THEN alignment ELSE bytes)),
                        ImmU32(offset)>>)

visitLoad(curr) ==
  <<VisitItem(curr.kids[1]),
    emitMemoryAccess(LoadCode(curr), curr.align, curr.bytes, curr.offset)>>

visitStore(curr) ==
  <<VisitItem(curr.kids[1]), VisitItem(curr.kids[2]),
    emitMemoryAccess(StoreCode(curr), curr.align, curr.bytes, curr.offset)>>

visitConst(curr) ==
  CASE curr.type = "i32" -> <<EmitItem(I32Const, <<Imm("S32LEB", curr.lit)>>)>>
    [] curr.type = "i64" -> <<EmitItem(I64Const, <<Imm("S64LEB", curr.lit)>>)>>
    [] curr.type = "f32" -> <<EmitItem(F32Const, <<Imm("float", curr.lit)>>)>>
    [] curr.type = "f64" -> <<EmitItem(F64Const, <<Imm("double", curr.lit)>>)>>
    [] OTHER -> <<AbortItem>>

\* of the unary operators the model has Clz
visitUnary(curr) ==
  <<VisitItem(curr.kids[1]),
    IF curr.op = "Clz"
      THEN EmitItem(IF curr.type = "i32" THEN I32Clz ELSE I64Clz, <<>>)
      ELSE AbortItem>>

\* of the binary operators the model has Add
visitBinary(curr) ==
  LET code == AddCode(getReachableWasmType(curr.kids[1].type, curr.kids[2].type))
  IN  <<VisitItem(curr.kids[1]), VisitItem(curr.kids[2]),
        IF curr.op = "Add" /\ code >= 0 THEN EmitItem(code, <<>>) ELSE AbortItem>>

visitSelect(curr) == visitList(curr.kids) \o <<EmitItem(Select, <<>>)>>

visitReturn(curr) ==
  visitMaybe(curr.kids[1])
    \o <<EmitItem(Return, <<ImmU32(IF curr.kids[1].k # "Null" THEN 1 ELSE 0)>>)>>

\* Visitor::visit: what the visitor of the node's kind does, as items
visit(curr, cx) ==
  CASE curr.k = "Block" -> visitBlock(curr)
    [] curr.k = "If" -> visitIf(curr)
    [] curr.k = "Loop" -> visitLoop(curr)
    [] curr.k = "Break" -> visitBreak(curr)
    [] curr.k = "Switch" -> visitSwitch(curr)
    [] curr.k = "Call" -> visitCall(curr, cx)
    [] curr.k = "GetLocal" -> visitGetLocal(curr, cx)
    [] curr.k = "SetLocal" -> visitSetLocal(curr, cx)
    [] curr.k = "Load" -> visitLoad(curr)
    [] curr.k = "Store" -> visitStore(curr)
    [] curr.k = "Const" -> visitConst(curr)
    [] curr.k = "Unary" -> visitUnary(curr)
    [] curr.k = "Binary" -> visitBinary(curr)
    [] curr.k = "Select" -> visitSelect(curr)
    [] curr.k = "Return" -> visitReturn(curr)
    [] curr.k = "Nop" -> <<EmitItem(Nop, <<>>)>>
    [] curr.k = "Unreachable" -> <<EmitItem(Unreachable, <<>>)>>

\* o << uint32_t(getBreakIndex(target)) for each target of a switch, then the default
writeTargets(s, targets) ==
  LET index(i) == getBreakIndex(s.breakStack, targets[i])
      note(i) == [at |-> Len(s.o) + 4 * (i - 1), index |-> index(i), name |-> targets[i],
                  breakStack |-> s.breakStack, scopes |-> s.scopes]
  IN  IF \E i \in 1..Len(targets) : index(i) < 0 THEN [s EXCEPT !.ok = FALSE]
      ELSE [s EXCEPT !.o = @ \o Flatten([i \in 1..Len(targets) |-> IntBytes(U32(index(i)))]),
                     !.log = @ \o [i \in 1..Len(targets) |-> note(i)]]

\* the end of visitBreak: the opcode, the arity, the break index (the code
\* has aborted where there is none)
emitBreak(curr, index) ==
  EmitItem(IF curr.kids[2].k # "Null" THEN BrIf ELSE Br,
           <<ImmU32(IF curr.kids[1].k # "Null" THEN 1 ELSE 0),
             ImmU32(IF index < 0 THEN 0 ELSE index)>>)

\* the end of visitSwitch: the opcode, the arity, the number of targets; the
\* targets follow
emitSwitch(curr) ==
  EmitItem(TableSwitch,
           <<ImmU32(IF curr.kids[1].k # "Null" THEN 1 ELSE 0), ImmU32(Len(curr.targets))>>)

\* the writer does the next item of the body; s.work is what is left after it
writeItem(s, cx, item) ==
  LET targets(s2) ==
        IF item.t = "switch"
          THEN writeTargets(s2, Append(item.node.targets, item.node.name))
          ELSE s2
      emit(s1, e) == targets(emitExpression(s1, cx, e.op, e.imms))
      break(index) == emit(noteBreak(s, item.node.name, index), emitBreak(item.node, index))
  IN  CASE item.t = "visit" -> [s EXCEPT !.work = visit(item.node, cx) \o @]
        [] item.t = "push" -> pushBreak(s, item.name, item.which)
        [] item.t = "pop" -> popBreak(s)
        [] item.t = "abort" -> [s EXCEPT !.ok = FALSE]
        [] item.t = "br" -> break(getBreakIndex(s.breakStack, item.node.name))
        [] item.t = "switch" -> emit(s, emitSwitch(item.node))
        [] item.t = "emit" -> emit(s, item)

----------------------------------------------------------------------------
(* The sections the writer emits *)

\* startSection: the buffer after it; it returns SectionStartOf
startSection(buf, name) == buf \o InlineString(name) \o Placeholder
SectionStartOf(buf, name) == Len(buf) + Len(InlineString(name))

\* finishSection
finishSection(buf, start) == BufferWriteAt(buf, start, Len(buf) - start - 5)

TypeBytes(types) == [i \in 1..Len(types) |-> binaryWasmType(types[i])]

\* what writeSignatures writes between startSection and finishSection
SignaturesBody(module) ==
  U32LEBBytes(Len(module.functionTypes))
    \o Flatten([i \in 1..Len(module.functionTypes) |->
         LET type == module.functionTypes[i]
         IN  <<Basic>> \o U32LEBBytes(Len(type.params)) \o TypeBytes(type.params)
               \o (IF type.result = "none" THEN U32LEBBytes(0)
                   ELSE U32LEBBytes(1) \o <<binaryWasmType(type.result)>>)])

\* what writeImports writes
ImportsBody(module) ==
  U32LEBBytes(Len(module.imports))
    \o Flatten([i \in 1..Len(module.imports) |->
         U32LEBBytes(getFunctionTypeIndex(module, module.imports[i].type))
           \o InlineString(module.imports[i].module)
           \o InlineString(module.imports[i].base)])

\* what writeFunctionSignatures writes
FunctionSignaturesBody(module) ==
  U32LEBBytes(Len(module.functions))
    \o Flatten([i \in 1..Len(module.functions) |->
         U32LEBBytes(getFunctionTypeIndex(module, module.functions[i].type))])

\* what writeFunctionTable writes
FunctionTableBody(module) ==
  U32LEBBytes(Len(module.table))
    \o Flatten([i \in 1..Len(module.table) |->
         U32LEBBytes(getFunctionIndex(module, module.table[i]))])

\* what writeMemory writes
MemoryBody(module) ==
  U32LEBBytes(module.memory.initial) \o U32LEBBytes(module.memory.max)
    \o <<IF module.memory.exportName # NullName THEN 1 ELSE 0>>

\* what writeExports writes
ExportsBody(module) ==
  U32LEBBytes(Len(module.exports))
    \o Flatten([i \in 1..Len(module.exports) |->
         U32LEBBytes(getFunctionIndex(module, module.exports[i].value))
           \o InlineString(module.exports[i].name)])

\* what writeStart writes
StartBody(module) == U32LEBBytes(getFunctionIndex(module, module.start))

\* what writeDataSegments writes: the segments that have data
DataSegmentsBody(module) ==
  LET segments == module.memory.segments
  IN  U32LEBBytes(Cardinality({i \in 1..Len(segments) : Len(segments[i].data) > 0}))
        \o Flatten([i \in 1..Len(segments) |->
             IF Len(segments[i].data) = 0 THEN <<>>
             ELSE U32LEBBytes(segments[i].offset) \o InlineString(segments[i].data)])

\* what writeNames writes
NamesBody(module) ==
  U32LEBBytes(Len(module.functions))
    \o Flatten([i \in 1..Len(module.functions) |->
         InlineString(module.functions[i].name) \o U32LEBBytes(0)])

\* o << uint8_t(value.type), then the value, signed
TableValueBytes(value) ==
  <<binaryWasmType(value.type)>>
    \o (IF isWasmTypeFloat(value.type) THEN IntBytes(value.bits)
        ELSE LEBWrite(value.bits, TRUE))

\* what OpcodeTable::write writes
OpcodesBody(table) ==
  <<Len(table) % 256>>
    \o Flatten([i \in 1..Len(table) |->
         <<table[i].code, table[i].entry.op, table[i].entry.size>>
           \o Flatten([j \in 1..table[i].entry.size |->
                TableValueBytes(table[i].entry.values[j])])])

\* the local declarations of writeFunctions: the number of types, then one
\* (count, type) for each type that has locals
LocalsHeader(numLocalsByType) ==
  U32LEBBytes(Cardinality({t \in 1..4 : numLocalsByType[t] # 0}))
    \o Flatten([t \in 1..4 |->
         IF numLocalsByType[t] # 0
           THEN U32LEBBytes(numLocalsByType[t]) \o <<binaryWasmType(ValueTypes[t])>>
           ELSE <<>>])

----------------------------------------------------------------------------
(* WasmBinaryBuilder: the reader *)

\* The reader is a record r: the input and pos, the module under construction,
\* and the state of the expression reader.  ok turns FALSE where the code aborts
\* or an assert fails, and why keeps the reason; val and bits carry the result
\* of the last get.  scopes and log are history, as in the writer.

NoMemory == [initial |-> 0, max |-> 0, exportName |-> NullName, segments |-> <<>>]

NewReader(input) ==
  [input |-> input, pos |-> 0, ok |-> TRUE, why |-> "", val |-> 0, bits |-> <<>>,
   status |-> "header",
   functionTypes |-> <<>>, imports |-> <<>>, sigs |-> <<>>, functions |-> <<>>,
   exportIndexes |-> <<>>, exports |-> <<>>, startIndex |-> -1, start |-> NullName,
   functionTable |-> <<>>, table |-> <<>>, memory |-> NoMemory, opcodeTable |-> NoTable,
   breakStack |-> <<>>, scopes |-> <<>>, log |-> <<>>, expressionStack |-> <<>>,
   lastSeparator |-> End, nextLabel |-> 0, endOfFunction |-> 0,
   curr |-> Null, code |-> 0, entry |-> 0, locals |-> <<>>,
   frames |-> <<>>, fnIndex |-> 0, fnTotal |-> 0, fnType |-> 0, fnVars |-> <<>>,
   sectionEnd |-> 0]

\* abort(), or an assert that fails
Fail(r, why) == IF r.ok THEN [r EXCEPT !.ok = FALSE, !.why = why] ELSE r

\* assert(cond)
Check(r, cond, why) == IF r.ok /\ ~cond THEN Fail(r, why) ELSE r

\* the value of a bit vector, 2^31 - 1 for one that is larger
Value(v) == IF \E i \in 32..Len(v) : v[i] = 1 THEN 2147483647 ELSE ToNat(v)

\* more()
more(r) == r.pos < Len(r.input)

getInt8(r) ==
  IF ~r.ok THEN r
  ELSE IF ~more(r) THEN Fail(r, "truncated")
  ELSE [r EXCEPT !.val = r.input[r.pos + 1], !.pos = @ + 1]

\* getInt32, getInt64: n bytes, little endian
getInt(r, n) ==
  LET got(bits) == [r EXCEPT !.bits = bits, !.val = Value(bits), !.pos = @ + n]
  IN  IF ~r.ok THEN r
      ELSE IF r.pos + n > Len(r.input)
        THEN Fail([r EXCEPT !.pos = Len(r.input)], "truncated")
      ELSE got(BytesToBits(SubSeq(r.input, r.pos + 1, r.pos + n)))

\* getU32LEB, getS32LEB, getS64LEB
getLEB(r, signed, w) ==
  LET got(res) ==
        IF ~res.ok THEN Fail([r EXCEPT !.pos = res.pos], "truncated")
        ELSE [r EXCEPT !.bits = res.value, !.val = Value(res.value), !.pos = res.pos]
  IN  IF ~r.ok THEN r ELSE got(LEBRead(r.input, r.pos, signed, w))

getU32LEB(r) == getLEB(r, FALSE, W32)

\* getWasmType: val is the place of the type in <<none>> \o ValueTypes
getWasmType(r) ==
  LET known(r1) == Check(r1, r1.val \in 0..4, "bad type") IN known(getInt8(r))

WasmTypeOf(n) == IF n = 0 THEN "none" ELSE ValueTypes[n]

\* getInlineString: the name is left in bits
getInlineString(r) ==
  LET take(r1) ==
        IF ~r1.ok THEN r1
        ELSE IF r1.pos + r1.val > Len(r1.input)
          THEN Fail([r1 EXCEPT !.pos = Len(r1.input)], "truncated")
        ELSE [r1 EXCEPT !.bits = SubSeq(r1.input, r1.pos + 1, r1.pos + r1.val),
                        !.pos = @ + r1.val]
  IN  take(getU32LEB(r))

\* verifyInt32(x)
verifyInt32(r, x, why) ==
  LET same(r1) == Check(r1, r1.bits = U32(x), why) IN same(getInt(r, 4))

readHeader(r) == verifyInt32(verifyInt32(r, Magic, "bad magic"), Version, "bad version")

readStart(r) ==
  LET set(r1) == IF r1.ok THEN [r1 EXCEPT !.startIndex = r1.val] ELSE r1
  IN  set(getU32LEB(r))

readMemory(r) ==
  LET set(initial, max, r3) ==
        IF ~r3.ok THEN r3
        ELSE [r3 EXCEPT !.memory = [@ EXCEPT !.initial = initial, !.max = max,
                  !.exportName = IF r3.val # 0 THEN <<109, 101, 109, 111, 114, 121>>
                                 ELSE @]]
      third(initial, r2) == set(initial, r2.val, getInt8(r2))
      second(r1) == third(r1.val, getU32LEB(r1))
  IN  second(getU32LEB(r))

RECURSIVE readTypes(_, _, _)
\* num times getWasmType: the types read are appended to acc, left in bits
readTypes(r, num, acc) ==
  LET next(r1) ==
        IF ~r1.ok THEN r1 ELSE readTypes(r1, num - 1, Append(acc, WasmTypeOf(r1.val)))
  IN  IF ~r.ok THEN r
      ELSE IF num = 0 THEN [r EXCEPT !.bits = acc]
      ELSE next(getWasmType(r))

\* one iteration of the loop of readSignatures
readSignature(r) ==
  LET add(paramTypes, r7) ==
        IF ~r7.ok THEN r7
        ELSE [r7 EXCEPT !.functionTypes =
                Append(@, [name |-> NameFromInt(Len(r.functionTypes)),
                           params |-> paramTypes, result |-> WasmTypeOf(r7.val)])]
      resultOf(r6) ==
        IF r6.ok /\ r6.val = 1 THEN getWasmType(r6) ELSE [r6 EXCEPT !.val = 0]
      results(r5) == resultOf(Check(r5, r5.val \in {0, 1}, "bad results"))
      typed(r4) == add(r4.bits, results(getU32LEB(r4)))
      counted(r3) == typed(readTypes(r3, r3.val, <<>>))
      form(r1) == counted(getU32LEB(Check(r1, r1.val = Basic, "bad form")))
  IN  form(getInt8(r))

\* one iteration of the loop of readFunctionSignatures
readFunctionSignature(r) ==
  LET add(g) == IF g.ok THEN [g EXCEPT !.sigs = Append(@, g.val)] ELSE g
  IN  add(getU32LEB(r))

\* one iteration of the loop of readImports
readImport(r) ==
  LET add(index, module, b) ==
        IF b.ok THEN [b EXCEPT !.imports =
                        Append(@, [name |-> <<105, 109, 112, 111, 114, 116, 36>>
                                              \o Digits(Len(r.imports)),
                                   type |-> r.functionTypes[index + 1].name,
                                   module |-> module, base |-> b.bits])]
        ELSE b
      base(index, m) == add(index, m.bits, getInlineString(m))
      typed(g) ==
        base(g.val, getInlineString(Check(g, g.val < Len(r.functionTypes), "bad import")))
  IN  typed(getU32LEB(r))

\* one iteration of the loop of readFunctionTable
readTableIndex(r) ==
  LET add(g) == IF g.ok THEN [g EXCEPT !.functionTable = Append(@, g.val)] ELSE g
  IN  add(getU32LEB(r))

\* one iteration of the loop of readExports
readExport(r) ==
  LET add(index, n) ==
        IF n.ok THEN [n EXCEPT !.exportIndexes = Append(@, [name |-> n.bits, index |-> index])]
        ELSE n
      named(g) == add(g.val, getInlineString(Check(g, g.val < Len(r.sigs), "bad export")))
  IN  named(getU32LEB(r))

\* one iteration of the loop of readDataSegments
readSegment(r) ==
  LET add(offset, n) ==
        IF n.ok THEN [n EXCEPT !.memory.segments = Append(@, [offset |-> offset, data |-> n.bits])]
        ELSE n
      data(g) == add(g.val, getInlineString(g))
  IN  data(getU32LEB(r))

RECURSIVE repeat(_, _, _)
\* for (i = 0; i < num; i++) step, where step is the name of the loop body
repeat(r, num, step) ==
  IF ~r.ok \/ num = 0 THEN r
  ELSE repeat(CASE step = "signature" -> readSignature(r)
                [] step = "functionSignature" -> readFunctionSignature(r)
                [] step = "import" -> readImport(r)
                [] step = "functionTable" -> readTableIndex(r)
                [] step = "export" -> readExport(r)
                [] step = "segment" -> readSegment(r),
              num - 1, step)

\* readSignatures, readImports, readFunctionSignatures, readFunctionTable,
\* readExports, readDataSegments: a count, then that many entries
readList(r, step) ==
  LET entries(r1) == IF r1.ok THEN repeat(r1, r1.val, step) ELSE r1
  IN  entries(getU32LEB(r))
----------------------------------------------------------------------------
(* The expression reader *)

RECURSIVE blockChain(_, _)
RECURSIVE popOperands(_, _, _)
RECURSIVE readTargets(_, _, _)

\* The reader reads a body one readExpression at a time.  A call that is still
\* running while its contents are read is a frame of r.frames:
\*   function  the getMaybeBlock of readFunctions
\*   block     an iteration of the second loop of visitBlock; begun once the
\*             iteration has taken start
\*   ifTrue, ifFalse   the getBlock of an arm of visitIf
\*   loop      the getMaybeBlock of visitLoop
\* start is the size of expressionStack when the frame's processExpressions began
Frame(kind, start) ==
  [kind |-> kind, start |-> start, name |-> NullName, name2 |-> NullName,
   cond |-> Null, ifTrue |-> Null, begun |-> TRUE]

\* getNextLabel: the label is left in bits
getNextLabel(r) == [r EXCEPT !.bits = LabelName(r.nextLabel), !.nextLabel = @ + 1]

\* breakStack.push_back(name)
readerPush(r, name, which) ==
  [r EXCEPT !.breakStack = Append(@, name),
            !.scopes = Append(@, [pos |-> r.pos, which |-> which])]

\* breakStack.pop_back()
readerPop(r) ==
  [r EXCEPT !.breakStack = SubSeq(@, 1, Len(@) - 1),
            !.scopes = SubSeq(@, 1, Len(@) - 1)]

\* popExpression: the expression is left in curr
popExpression(r) ==
  IF ~r.ok THEN r
  ELSE IF Len(r.expressionStack) = 0 THEN Fail(r, "empty expression stack")
  ELSE [r EXCEPT !.curr = r.expressionStack[Len(r.expressionStack)],
                 !.expressionStack = SubSeq(@, 1, Len(@) - 1)]

\* operands[num - i - 1] = popExpression() for i = 0 .. num - 1: operands in bits
popOperands(r, num, acc) ==
  LET next(r1) == popOperands(r1, num - 1, <<r1.curr>> \o acc)
  IN  IF ~r.ok \/ num = 0 THEN [r EXCEPT !.bits = acc] ELSE next(popExpression(r))

\* processExpressions, for an expression readExpression returned: it goes on
\* expressionStack.  In visitBlock the block that ended is the first element of
\* the block around it, whose iteration takes start and begins
push(r, curr) ==
  LET begin(n) ==
        IF n > 0 /\ ~r.frames[n].begun
          THEN [r EXCEPT !.frames[n].begun = TRUE,
                         !.frames[n].start = Len(r.expressionStack),
                         !.expressionStack = Append(@, curr)]
          ELSE [r EXCEPT !.expressionStack = Append(@, curr)]
  IN  IF ~r.ok THEN r ELSE begin(Len(r.frames))

\* Builder::blockify
blockify(curr) == IF curr.k = "Block" THEN curr ELSE makeBlock(NullName, <<curr>>)

\* getMaybeBlock leaving on the expression stack what it has put in its block
getMaybeBlockKeepsStack(r, start) ==
  LET block(end) ==
        IF end = start - 1 THEN popExpression(r)
        ELSE IF end < start THEN Fail(r, "undefined")
        ELSE [r EXCEPT !.curr = makeBlock(NullName, SubSeq(r.expressionStack, start + 1, end))]
  IN  IF ~r.ok THEN r ELSE block(Len(r.expressionStack))

\* getMaybeBlock once its processExpressions has returned; start - end is
\* computed in size_t, so it is 1 only for end = start - 1
getMaybeBlock(r, start) ==
  LET block(end) ==
        IF end = start - 1 THEN popExpression(r)
        ELSE IF end < start THEN Fail(r, "undefined")
        ELSE [r EXCEPT !.curr = makeBlock(NullName, SubSeq(r.expressionStack, start + 1, end)),
                       !.expressionStack = SubSeq(@, 1, start)]
  IN  IF ~r.ok THEN r ELSE block(Len(r.expressionStack))

\* getBlock up to its processExpressions, for the arm of an if
getBlock(r, kind, cond, ifTrue) ==
  LET open(r1) ==
        [readerPush(r1, r1.bits, "if")
           EXCEPT !.frames = Append(@, [Frame(kind, Len(r.expressionStack))
                                          EXCEPT !.name = r1.bits, !.cond = cond,
                                                 !.ifTrue = ifTrue])]
  IN  IF ~r.ok THEN r ELSE open(getNextLabel(r))

\* the first loop of visitBlock: a label and a breakStack entry for the block and
\* for each block nested in first position; the labels are left in bits
blockChain(r, labels) ==
  LET next(label, r3) ==
        IF ~r3.ok THEN r3
        ELSE IF r3.val = Block THEN blockChain(r3, Append(labels, label))
        ELSE [r3 EXCEPT !.pos = @ - 1, !.bits = Append(labels, label)]
      labelled(r1) == next(r1.bits, getInt8(readerPush(r1, r1.bits, "block")))
  IN  labelled(getNextLabel(r))

\* visitBlock up to the processExpressions of the innermost block
readerVisitBlock(r, hasEntry) ==
  LET open(r1) ==
        IF ~r1.ok THEN r1
        ELSE [r1 EXCEPT !.frames = @ \o [k \in 1..Len(r1.bits) |->
                          [Frame("block", Len(r1.expressionStack))
                             EXCEPT !.name = r1.bits[k], !.begun = (k = Len(r1.bits))]]]
  IN  open(blockChain(Check(r, ~hasEntry, "table entry without immediates"), <<>>))

\* an iteration of the second loop of visitBlock once its processExpressions
\* has returned
endBlock(r, top) ==
  LET close(r1) ==
        IF ~r1.ok THEN r1
        ELSE push(readerPop([r1 EXCEPT !.expressionStack = SubSeq(@, 1, top.start)]),
                  makeBlock(top.name, SubSeq(r.expressionStack, top.start + 1,
                                             Len(r.expressionStack))))
  IN  close(Check(r, Len(r.expressionStack) >= top.start, "block lost expressions"))

\* visitIf up to the processExpressions of ifTrue
readerVisitIf(r, hasEntry) ==
  LET arm(r1) == getBlock([r1 EXCEPT !.curr = Null], "ifTrue", r1.curr, Null)
  IN  arm(popExpression(Check(r, ~hasEntry, "table entry without immediates")))

\* visitIf from the end of an arm on
endArm(r, top) ==
  LET next(r2, arm) ==
        IF top.kind = "ifTrue" /\ r.lastSeparator = Else
          THEN getBlock([r2 EXCEPT !.curr = Null], "ifFalse", top.cond, arm)
        ELSE push(Check(r2, r.lastSeparator = End, "if without end"),
                  IF top.kind = "ifTrue" THEN makeIf(top.cond, arm, Null)
                  ELSE makeIf(top.cond, top.ifTrue, arm))
      got(r1) ==
        IF ~r1.ok THEN r1
        ELSE next(readerPop(r1), [blockify(r1.curr) EXCEPT !.name = top.name])
  IN  got(getMaybeBlock(r, top.start))

\* visitLoop up to the processExpressions of the body
readerVisitLoop(r, hasEntry) ==
  LET open(out, r2) ==
        IF ~r2.ok THEN r2
        ELSE [readerPush(readerPush(r2, out, "out"), r2.bits, "in")
                EXCEPT !.frames = Append(@, [Frame("loop", Len(r.expressionStack))
                                               EXCEPT !.name = out, !.name2 = r2.bits])]
      second(r1) == open(r1.bits, getNextLabel(r1))
  IN  second(getNextLabel(Check(r, ~hasEntry, "table entry without immediates")))

\* visitLoop from the end of the body on
endLoop(r, top) ==
  LET close(r1) ==
        IF ~r1.ok THEN r1
        ELSE push(readerPop(readerPop(r1)), makeLoop(top.name, top.name2, r1.curr))
  IN  close(getMaybeBlock(r, top.start))

\* opcodeEntry->values[j].geti32(), or getU32LEB(): the value is left in val
immediate(r, hasEntry, entry, j) ==
  IF hasEntry
    THEN Check([r EXCEPT !.val = Value(entry.values[j].bits)],
               j <= entry.size /\ entry.values[j].type = "i32", "bad table entry")
    ELSE getU32LEB(r)

\* getBreakName(offset): the name is left in bits; history: the scope it is
\* the name of is logged for the index read at position at
getBreakName(r, offset, at) ==
  LET name(r1) ==
        IF ~r1.ok THEN r1
        ELSE [r1 EXCEPT !.bits = r.breakStack[Len(r.breakStack) - offset],
                        !.log = Append(@, [at |-> at, index |-> offset,
                                           scope |-> r.scopes[Len(r.scopes) - offset]])]
  IN  name(Check(r, offset < Len(r.breakStack), "break depth out of range"))

readerVisitBreak(r, code, hasEntry, entry, at) ==
  LET make(name, condition, r5) == [r5 EXCEPT !.curr = makeBreak(name, r5.curr, condition)]
      value(arity, name, r4) ==
        make(name, r4.curr,
             IF arity = 1 THEN popExpression(r4) ELSE [r4 EXCEPT !.curr = Null])
      condition(arity, r3) ==
        value(arity, r3.bits,
              IF code = BrIf THEN popExpression(r3) ELSE [r3 EXCEPT !.curr = Null])
      target(arity, r2) ==
        condition(arity, getBreakName(Check(r2, arity \in {0, 1}, "bad arity"), r2.val, at))
      index(r1) == target(r1.val, immediate(r1, hasEntry, entry, 2))
  IN  index(immediate(r, hasEntry, entry, 1))

\* targets.push_back(getBreakName(getInt32())) num times; the names in bits
readTargets(r, num, acc) ==
  LET add(r2) == readTargets(r2, num - 1, Append(acc, r2.bits))
      name(r1) == add(IF r1.ok THEN getBreakName(r1, r1.val, r.pos) ELSE r1)
  IN  IF ~r.ok \/ num = 0 THEN [r EXCEPT !.bits = acc] ELSE name(getInt(r, 4))

readerVisitSwitch(r, hasEntry, entry) ==
  LET make(num, condition, value, r5) ==
        IF ~r5.ok THEN r5
        ELSE [r5 EXCEPT !.curr = makeSwitch(SubSeq(r5.bits, 1, num), r5.bits[num + 1],
                                            value, condition)]
      targets(num, condition, r4) ==
        make(num, condition, r4.curr,
             readTargets(Check(r4, num <= Len(r.input), "truncated"), num + 1, <<>>))
      valueOf(arity, num, r3) ==
        targets(num, r3.curr,
                IF arity = 1 THEN popExpression(r3) ELSE [r3 EXCEPT !.curr = Null])
      condition(arity, r2) ==
        valueOf(arity, r2.val, popExpression(Check(r2, arity \in {0, 1}, "bad arity")))
      count(r1) == condition(r1.val, immediate(r1, hasEntry, entry, 2))
  IN  count(immediate(r, hasEntry, entry, 1))

\* visitCall; functionTypes[index] of an index that is not there is undefined
readerVisitCall(r, hasEntry, entry) ==
  LET type(index) == r.functionTypes[r.sigs[index + 1] + 1]
      known(index) == index < Len(r.sigs) /\ r.sigs[index + 1] < Len(r.functionTypes)
      make(index, r5) ==
        IF ~r5.ok THEN r5
        ELSE [r5 EXCEPT !.curr = [makeCall(NullName, r5.bits, type(index).result)
                                    EXCEPT !.idx = index]]
      operands(arity, index, r4) ==
        make(index, IF r4.ok THEN popOperands(r4, arity, <<>>) ELSE r4)
      typed(arity, index, r3) ==
        operands(arity, index,
                 IF r3.ok THEN Check(r3, Len(type(index).params) = arity, "bad arity")
                 ELSE r3)
      call(arity, r2) == typed(arity, r2.val, Check(r2, known(r2.val), "undefined"))
      index(r1) == call(r1.val, immediate(r1, hasEntry, entry, 2))
  IN  index(immediate(r, hasEntry, entry, 1))

readerVisitGetLocal(r, hasEntry, entry) ==
  LET make(r2) ==
        IF ~r2.ok THEN r2
        ELSE [r2 EXCEPT !.curr = makeGetLocal(r2.val, r.locals[r2.val + 1])]
      inRange(r1) == make(Check(r1, r1.val < Len(r.locals), "local index out of range"))
  IN  inRange(immediate(r, hasEntry, entry, 1))

readerVisitSetLocal(r, hasEntry, entry) ==
  LET make(index, r2) ==
        IF ~r2.ok THEN r2 ELSE [r2 EXCEPT !.curr = makeSetLocal(index, r2.curr)]
      inRange(r1) ==
        make(r1.val,
             popExpression(Check(r1, r1.val < Len(r.locals), "local index out of range")))
  IN  inRange(immediate(r, hasEntry, entry, 1))

\* readMemoryAccess: alignment in val, offset in code
readMemoryAccess(r, hasEntry, entry) ==
  LET fromEntry(r1) == [r1 EXCEPT !.code = r1.val]
      set(alignment, r2) ==
        IF ~r2.ok THEN r2 ELSE [r2 EXCEPT !.val = Pow2(alignment), !.code = r2.val]
      offset(r1) == set(r1.val, getU32LEB(Check(r1, r1.val < 31, "undefined")))
  IN  IF hasEntry THEN fromEntry(immediate(r, hasEntry, entry, 1))
      ELSE offset(getU32LEB(r))

LoadCodes ==
  {I32LoadMem8S, I32LoadMem8U, I32LoadMem16S, I32LoadMem16U, I32LoadMem, I64LoadMem}

maybeVisitLoad(r, code, hasEntry, entry) ==
  LET make(bytes, r1, r2) ==
        IF ~r2.ok THEN r2
        ELSE [r2 EXCEPT !.curr = makeLoad(bytes, code \in {I32LoadMem8S, I32LoadMem16S},
                                          r1.code, r1.val, r2.curr,
                                          IF code = I64LoadMem THEN "i64" ELSE "i32")]
      ptr(r1) ==
        make(CASE code \in {I32LoadMem8S, I32LoadMem8U} -> 1
               [] code \in {I32LoadMem16S, I32LoadMem16U} -> 2
               [] code = I32LoadMem -> 4
               [] OTHER -> 8,
             r1, popExpression(r1))
  IN  ptr(readMemoryAccess(r, hasEntry, entry))

StoreCodes == {I32StoreMem8, I32StoreMem16, I32StoreMem, I64StoreMem}

maybeVisitStore(r, code, hasEntry, entry) ==
  LET make(bytes, r1, value, r3) ==
        IF ~r3.ok THEN r3
        ELSE [r3 EXCEPT !.curr = makeStore(bytes, r1.code, r1.val, r3.curr, value,
                                           IF code = I64StoreMem THEN "i64" ELSE "i32")]
      ptr(r1, r2) ==
        make(CASE code = I32StoreMem8 -> 1
               [] code = I32StoreMem16 -> 2
               [] code = I32StoreMem -> 4
               [] OTHER -> 8,
             r1, r2.curr, popExpression(r2))
      value(r1) == ptr(r1, popExpression(r1))
  IN  value(readMemoryAccess(r, hasEntry, entry))

ConstCodes == {I32Const, I64Const, F32Const, F64Const}

maybeVisitConst(r, code, hasEntry, entry) ==
  LET make(type, r1) ==
        IF ~r1.ok THEN r1 ELSE [r1 EXCEPT !.curr = makeConst(type, r1.bits)]
  IN  IF hasEntry
        THEN [r EXCEPT !.curr = makeConst(entry.values[1].type, entry.values[1].bits)]
      ELSE IF code = I32Const THEN make("i32", getLEB(r, TRUE, W32))
      ELSE IF code = I64Const THEN make("i64", getLEB(r, TRUE, W64))
      ELSE IF code = F32Const THEN make("f32", getInt(r, 4))
      ELSE make("f64", getInt(r, 8))

\* of the unary operators the model has Clz
maybeVisitUnary(r, code, hasEntry) ==
  LET make(r1) ==
        IF ~r1.ok THEN r1
        ELSE [r1 EXCEPT !.curr = makeUnary("Clz", r1.curr,
                                           IF code = I32Clz THEN "i32" ELSE "i64")]
  IN  make(popExpression(Check(r, ~hasEntry, "table entry without immediates")))

\* of the binary operators the model has Add; the operands are not compared,
\* and finalize() takes the type of the left one
maybeVisitBinary(r, code, hasEntry) ==
  LET make(right, r2) ==
        IF ~r2.ok THEN r2
        ELSE [r2 EXCEPT !.curr = makeBinary("Add", r2.curr, right,
                                   getReachableWasmType(r2.curr.type, right.type))]
      left(r1) == make(r1.curr, popExpression(r1))
  IN  left(popExpression(Check(r, ~hasEntry, "table entry without immediates")))

readerVisitSelect(r, hasEntry) ==
  LET make(condition, ifFalse, r3) ==
        IF ~r3.ok THEN r3 ELSE [r3 EXCEPT !.curr = makeSelect(r3.curr, ifFalse, condition)]
      ifTrue(condition, r2) == make(condition, r2.curr, popExpression(r2))
      ifFalse(r1) == ifTrue(r1.curr, popExpression(r1))
  IN  ifFalse(popExpression(Check(r, ~hasEntry, "table entry without immediates")))

readerVisitReturn(r, hasEntry, entry) ==
  LET make(r3) == IF ~r3.ok THEN r3 ELSE [r3 EXCEPT !.curr = makeReturn(r3.curr)]
      value(arity, r2) ==
        make(IF r2.ok /\ arity = 1 THEN popExpression(r2) ELSE [r2 EXCEPT !.curr = Null])
      arity(r1) == value(r1.val, Check(r1, r1.val \in {0, 1}, "bad arity"))
  IN  arity(immediate(r, hasEntry, entry, 1))

\* the opcodes of BinaryConsts::ASTNodes that the model does not decode
OtherOpcodes ==
  ((0..10) \cup {15} \cup (16..24) \cup (32..54) \cup {57, 59} \cup (64..186))
    \ ({Nop, Block, Loop, If, Else, Select, Br, BrIf, TableSwitch, Return, Unreachable,
        End, GetLocal, SetLocal, CallFunction, I32Add, I64Add, F32Add, F64Add,
        I32Clz, I64Clz} \cup LoadCodes \cup StoreCodes \cup ConstCodes)

\* readExpression: the expression is left in curr (Null for none), the opcode
\* in code
readExpression(r) ==
  LET done(code, r2) == IF ~r2.ok THEN r2 ELSE [r2 EXCEPT !.code = code]
      dispatch(code, hasEntry, entry, r1) ==
        done(code,
          CASE code = Block -> readerVisitBlock(r1, hasEntry)
            [] code = If -> readerVisitIf(r1, hasEntry)
            [] code = Loop -> readerVisitLoop(r1, hasEntry)
            [] code \in {Br, BrIf} -> readerVisitBreak(r1, code, hasEntry, entry, r.pos)
            [] code = TableSwitch -> readerVisitSwitch(r1, hasEntry, entry)
            [] code = CallFunction -> readerVisitCall(r1, hasEntry, entry)
            [] code = GetLocal -> readerVisitGetLocal(r1, hasEntry, entry)
            [] code = SetLocal -> readerVisitSetLocal(r1, hasEntry, entry)
            [] code = Select -> readerVisitSelect(r1, hasEntry)
            [] code = Return -> readerVisitReturn(r1, hasEntry, entry)
            [] code = Nop ->
                 [Check(r1, ~hasEntry, "table entry without immediates")
                    EXCEPT !.curr = makeNop]
            [] code = Unreachable ->
                 [Check(r1, ~hasEntry, "table entry without immediates")
                    EXCEPT !.curr = makeUnreachable]
            [] code \in {End, Else} -> r1
            [] code \in {I32Add, I64Add, F32Add, F64Add} -> maybeVisitBinary(r1, code, hasEntry)
            [] code \in {I32Clz, I64Clz} -> maybeVisitUnary(r1, code, hasEntry)
            [] code \in ConstCodes -> maybeVisitConst(r1, code, hasEntry, entry)
            [] code \in LoadCodes -> maybeVisitLoad(r1, code, hasEntry, entry)
            [] code \in StoreCodes -> maybeVisitStore(r1, code, hasEntry, entry)
            [] code \in OtherOpcodes -> Fail(r1, "not modelled")
            [] OTHER -> Fail(r1, "bad code"))
      decode(hasEntry, entry, r0) ==
        dispatch(IF hasEntry THEN entry.op ELSE r0.val, hasEntry, entry,
                 [r0 EXCEPT !.curr = Null])
      lookup(hasEntry, r0) ==
        decode(hasEntry,
               IF hasEntry THEN tableEntry(r.opcodeTable, r0.val) ELSE OpcodeEntry(0, <<>>),
               r0)
      opcode(r0) == IF ~r0.ok THEN r0 ELSE lookup(tableUsed(r.opcodeTable, r0.val), r0)
  IN  IF ~r.ok THEN r
      ELSE IF r.pos = r.endOfFunction THEN [r EXCEPT !.curr = Null, !.code = End]
      ELSE opcode(getInt8(r))

----------------------------------------------------------------------------
(* The sections the reader reads *)

RECURSIVE readLocalRuns(_, _, _)
RECURSIVE readNamesFrom(_, _, _)
RECURSIVE readTableValues(_, _, _)
RECURSIVE readTableEntries(_, _)
RECURSIVE nameCalls(_, _)
RECURSIVE callsKnown(_, _)

\* the local declarations of a body: numLocalTypes runs of (num, type); the
\* types of the vars are left in bits
readLocalRuns(r, t, acc) ==
  LET next(num, r2) ==
        IF ~r2.ok THEN r2
        ELSE readLocalRuns(r2, t - 1, acc \o [j \in 1..num |-> WasmTypeOf(r2.val)])
      run(r1) == next(r1.val, getWasmType(Check(r1, r1.val <= Len(r.input), "not modelled")))
  IN  IF ~r.ok \/ t = 0 THEN [r EXCEPT !.bits = acc] ELSE run(getU32LEB(r))

\* readFunctions up to its loop
readFunctions(r) ==
  LET total(r1) == [r1 EXCEPT !.fnTotal = r1.val, !.fnIndex = 0] IN total(getU32LEB(r))

\* the section is read: assert(pos == before + sectionSize)
endSection(r) ==
  [Check(r, r.pos = r.sectionEnd, "section size mismatch") EXCEPT !.status = "sections"]

\* an iteration of the loop of readFunctions, for function number fnIndex (from
\* 0), up to the processExpressions of the body; functionTypes[i] of an i that
\* is not there is undefined
readFunction(r) ==
  LET type == r.functionTypes[r.sigs[r.fnIndex + 1] + 1]
      body(end, r5) ==
        IF ~r5.ok THEN r5
        ELSE [r5 EXCEPT !.endOfFunction = end, !.nextLabel = 0,
                        !.locals = type.params \o r5.bits,
                        !.fnType = type, !.fnVars = r5.bits,
                        !.frames = <<Frame("function", 0)>>,
                        !.status = "body"]
      empty(r4) ==
        Check(r4, r4.breakStack = <<>> /\ r4.expressionStack = <<>>, "stacks not empty")
      locals(end, r3) == body(end, empty(readLocalRuns(r3, r3.val, <<>>)))
      sized(end, r2) == IF ~r2.ok THEN r2 ELSE locals(end, getU32LEB(r2))
      size(r1) ==
        sized(r1.pos + r1.val,
              Check(Check(r1, r1.val > 0, "empty body"),
                    /\ r.fnIndex < Len(r.sigs)
                    /\ r.fnIndex < Len(r.sigs) => r.sigs[r.fnIndex + 1] < Len(r.functionTypes),
                    "undefined"))
  IN  size(getU32LEB(r))

\* the iteration from the end of the body on, and the end of the loop
endFunction(r, top) ==
  LET next(r3) == IF r3.fnIndex >= r3.fnTotal THEN endSection(r3) ELSE r3
      add(body, r2) ==
        IF ~r2.ok THEN r2
        ELSE next([r2 EXCEPT !.functions =
                     Append(@, makeFunction(NameFromInt(r.fnIndex), r.fnType.name,
                                            r.fnType.params, r.fnVars, body)),
                             !.fnIndex = @ + 1, !.status = "function"])
      got(r1) ==
        add(r1.curr,
            Check(Check(r1, r1.breakStack = <<>> /\ r1.expressionStack = <<>>,
                        "stacks not empty"),
                  r1.pos = r1.endOfFunction, "body size mismatch"))
  IN  got(getMaybeBlock(r, top.start))

\* a processExpressions returns at an end or else marker, or at the end of the
\* function: the call that ran it goes on
endFrame(r) ==
  LET end(top, r1) ==
        CASE top.kind = "block" -> endBlock(r1, top)
          [] top.kind \in {"ifTrue", "ifFalse"} -> endArm(r1, top)
          [] top.kind = "loop" -> endLoop(r1, top)
          [] top.kind = "function" -> endFunction(r1, top)
  IN  end(r.frames[Len(r.frames)], [r EXCEPT !.frames = SubSeq(@, 1, Len(@) - 1)])

\* processExpressions, one readExpression of it
processExpression(r) ==
  LET process(r1) ==
        IF ~r1.ok THEN r1
        ELSE IF r1.code \in {Block, If, Loop} THEN r1
        ELSE IF r1.curr.k = "Null" THEN endFrame([r1 EXCEPT !.lastSeparator = r1.code])
        ELSE push(r1, r1.curr)
  IN  process(readExpression(r))

\* the loop of readNames; functions[i] of an i that is not there is undefined
readNamesFrom(r, i, num) ==
  LET set(name, r3) ==
        IF ~r3.ok THEN r3
        ELSE readNamesFrom([r3 EXCEPT !.functions[i + 1].name = name], i + 1, num)
      locals(name, r2) == set(name, Check(r2, r2.val = 0, "local names"))
      named(r1) == locals(r1.bits, getU32LEB(r1))
  IN  IF ~r.ok \/ i >= num THEN r
      ELSE named(getInlineString(Check(r, i < Len(r.functions), "undefined")))

readNames(r) ==
  LET names(r1) == readNamesFrom(r1, 0, r1.val) IN names(getU32LEB(r))

\* the values of one entry of the opcode table, left in bits
readTableValues(r, size, acc) ==
  LET add(type, r2) ==
        IF ~r2.ok THEN r2
        ELSE readTableValues(r2, size - 1, Append(acc, Literal(ValueTypes[type], r2.bits)))
      value(r1) ==
        CASE ~r1.ok -> r1
          [] r1.val = 1 -> add(1, getLEB(r1, TRUE, W32))
          [] r1.val = 2 -> add(2, getLEB(r1, TRUE, W64))
          [] r1.val = 3 -> add(3, getInt(r1, 4))
          [] r1.val = 4 -> add(4, getInt(r1, 8))
          [] OTHER -> Fail(r1, "bad type")
  IN  IF ~r.ok \/ size = 0 THEN [r EXCEPT !.bits = acc] ELSE value(getInt8(r))

\* used[usedIndex] = true; entries[usedIndex] = entry
tablePut(table, code, entry) ==
  LET codes == {table[i].code : i \in 1..Len(table)} \cup {code}
      nth(k) == CHOOSE c \in codes : Cardinality({d \in codes : d < c}) = k - 1
  IN  [k \in 1..Cardinality(codes) |->
         [code |-> nth(k),
          entry |-> IF nth(k) = code THEN entry ELSE tableEntry(table, nth(k))]]

\* the loop of OpcodeTable::read; values[j] of a j past the two is undefined
readTableEntries(r, num) ==
  LET put(usedIndex, op, size, r4) ==
        IF ~r4.ok THEN r4
        ELSE readTableEntries(
               [r4 EXCEPT !.opcodeTable =
                  tablePut(@, usedIndex,
                           [op |-> op, size |-> size,
                            values |-> [j \in 1..2 |-> IF j <= Len(r4.bits) THEN r4.bits[j]
                                                       ELSE NoneLiteral]])],
               num - 1)
      values(usedIndex, op, r3) ==
        put(usedIndex, op, r3.val,
            readTableValues(Check(r3, r3.val <= 2, "undefined"), r3.val, <<>>))
      size(usedIndex, r2) == values(usedIndex, r2.val, getInt8(r2))
      op(r1) == size(r1.val, getInt8(r1))
  IN  IF ~r.ok \/ num = 0 THEN r ELSE op(getInt8(r))

readOpcodeTable(r) ==
  LET entries(r1) == readTableEntries(r1, r1.val) IN entries(getInt8(r))

SectionReaders ==
  <<[name |-> SectionStart, which |-> "start"],
    [name |-> SectionMemory, which |-> "memory"],
    [name |-> SectionSignatures, which |-> "signature"],
    [name |-> SectionImportTable, which |-> "import"],
    [name |-> SectionFunctionSignatures, which |-> "functionSignature"],
    [name |-> SectionFunctions, which |-> "code"],
    [name |-> SectionExportTable, which |-> "export"],
    [name |-> SectionDataSegments, which |-> "segment"],
    [name |-> SectionFunctionTable, which |-> "functionTable"],
    [name |-> SectionOpcodes, which |-> "opcode"],
    [name |-> SectionNames, which |-> "name"]>>

\* the match lambda of read(): the first section whose name the nameSize bytes
\* at pos are, 0 for none
match(r, nameSize) ==
  LET fits(i) == /\ Len(SectionReaders[i].name) = nameSize
                 /\ r.pos + nameSize <= Len(r.input)
                 /\ SubSeq(r.input, r.pos + 1, r.pos + nameSize) = SectionReaders[i].name
      first(found) == IF found = {} THEN 0 ELSE CHOOSE i \in found : \A j \in found : i <= j
  IN  first({i \in 1..Len(SectionReaders) : fits(i)})

\* one iteration of the loop of read(): a section
readSection(r) ==
  LET finish(which, r6) ==
        IF which = "code" /\ r6.fnTotal > 0 THEN [r6 EXCEPT !.status = "function"]
        ELSE endSection(r6)
      ended(which, end, r5) ==
        IF ~r5.ok THEN r5 ELSE finish(which, [r5 EXCEPT !.sectionEnd = end])
      read(which, r4) ==
        CASE which = "start" -> readStart(r4)
          [] which = "memory" -> readMemory(r4)
          [] which = "code" -> readFunctions(r4)
          [] which = "opcode" -> readOpcodeTable(r4)
          [] which = "name" -> readNames(r4)
          [] OTHER -> readList(r4, which)
      section(which, r4) == ended(which, r4.pos + r4.val, read(which, r4))
      body(m, r4) == IF ~r4.ok THEN r4 ELSE section(SectionReaders[m].which, r4)
      sized(m, r3) ==
        body(m, Check(r3, r3.pos + r3.val <= Len(r.input), "section past the end"))
      named(m, r1) ==
        sized(m, getU32LEB(IF m > 0 THEN [r1 EXCEPT !.pos = @ + r1.val]
                           ELSE Fail(r1, "unfamiliar section")))
      name(r1) == named(IF r1.ok THEN match(r1, r1.val) ELSE 0, r1)
  IN  name(getU32LEB(r))

\* call->target = wasm.functions[index]->name for the calls of a body
nameCalls(curr, functions) ==
  [curr EXCEPT !.kids = [i \in 1..Len(curr.kids) |-> nameCalls(curr.kids[i], functions)],
               !.name = IF curr.k = "Call" THEN functions[curr.idx + 1].name ELSE @,
               !.idx = IF curr.k = "Call" THEN 0 ELSE @]

\* every call of a body is to a function that is there
callsKnown(curr, num) ==
  /\ curr.k = "Call" => curr.idx < num
  /\ \A i \in 1..Len(curr.kids) : callsKnown(curr.kids[i], num)

\* processFunctions; order is the order exportIndexes, a map keyed by the
\* address of each Export, is iterated in.  wasm.functions[index] of an index
\* that is not there is undefined
processFunctions(r, order) ==
  LET known(num) ==
        /\ r.startIndex < num
        /\ \A i \in 1..Len(r.exportIndexes) : r.exportIndexes[i].index < num
        /\ \A i \in 1..num : callsKnown(r.functions[i].body, num)
      inTable(num) == \A i \in 1..Len(r.functionTable) : r.functionTable[i] < num
      process(num, r2) ==
        IF ~r2.ok THEN r2
        ELSE [r2 EXCEPT
                !.functions = [i \in 1..num |->
                                 [r.functions[i] EXCEPT !.body = nameCalls(@, r.functions)]],
                !.start = IF r.startIndex >= 0 THEN r.functions[r.startIndex + 1].name ELSE @,
                !.exports = [i \in 1..Len(order) |->
                               [name |-> r.exportIndexes[order[i]].name,
                                value |-> r.functions[r.exportIndexes[order[i]].index + 1].name]],
                !.table = [i \in 1..Len(r.functionTable) |->
                             r.functions[r.functionTable[i] + 1].name]]
      checked(num) ==
        process(num, Check(Check(r, known(num), "undefined"), inTable(num), "bad table index"))
  IN  checked(Len(r.functions))

----------------------------------------------------------------------------
(* WasmValidator, as far as the specification describes it: the signature of *)
(* every function and import is present, and every break names a label that  *)
(* encloses it                                                               *)

RECURSIVE labelsWellFormed(_, _)
labelsWellFormed(curr, labels) ==
  LET inner == CASE curr.k = "Block" -> labels \cup {curr.name}
                 [] curr.k = "Loop" -> labels \cup {curr.name, curr.name2}
                 [] OTHER -> labels
  IN  /\ curr.k = "Break" => curr.name \in labels
      /\ curr.k = "Switch" =>
           curr.name \in labels /\ \A i \in 1..Len(curr.targets) : curr.targets[i] \in labels
      /\ \A i \in 1..Len(curr.kids) : labelsWellFormed(curr.kids[i], inner)

validate(module) ==
  LET present(type) == \E i \in 1..Len(module.functionTypes) :
                         module.functionTypes[i].name = type
  IN  /\ \A i \in 1..Len(module.functions) : present(module.functions[i].type)
      /\ \A i \in 1..Len(module.imports) : present(module.imports[i].type)
      /\ \A i \in 1..Len(module.functions) :
           labelsWellFormed(module.functions[i].body, {})

----------------------------------------------------------------------------
(* What the reader builds *)

\* the module the reader has built
readerModule(r) ==
  [functionTypes |-> r.functionTypes, imports |-> r.imports, functions |-> r.functions,
   exports |-> r.exports, start |-> r.start, table |-> r.table, memory |-> r.memory]

----------------------------------------------------------------------------
(* The modules the codec is run on *)

NameF == <<102>>       \* "f"
NameG == <<103>>       \* "g"
LabelA == <<97>>       \* "a"
LabelB == <<98>>       \* "b"
LabelC == <<99>>       \* "c"

I32C(n) == makeConst("i32", FromNat(n, W32))
I64C(n) == makeConst("i64", FromNat(n, W64))
\* 0.0 and -0.0
F32Zero(sign) == makeConst("f32", [i \in 1..W32 |-> IF i = W32 THEN sign ELSE 0])
F64Zero(sign) == makeConst("f64", [i \in 1..W64 |-> IF i = W64 THEN sign ELSE 0])

\* the function types of every module: () -> none and (i32, i64) -> i32,
\* under the names the reader gives them
TypeNone == [name |-> NameFromInt(0), params |-> <<>>, result |-> "none"]
TypeBinary == [name |-> NameFromInt(1), params |-> <<"i32", "i64">>, result |-> "i32"]

\* bodies without locals, for a function of type () -> none
PlainBodies ==
  << makeNop,
     makeBlock(LabelA, <<makeBreak(LabelA, Null, Null), makeNop>>),
     makeLoop(LabelA, LabelB,
       makeBlock(NullName, <<makeBreak(LabelB, Null, I32C(1)), makeBreak(LabelA, Null, Null)>>)),
     makeBlock(LabelA,
       <<makeBlock(LabelA, <<makeBreak(LabelA, Null, Null)>>), makeBreak(LabelA, Null, Null)>>),
     makeBlock(LabelB,
       <<makeIf(I32C(0),
                makeBlock(LabelA, <<makeBreak(LabelA, Null, Null), makeBreak(LabelB, Null, Null)>>),
                makeBreak(LabelB, Null, Null)),
         makeIf(I32C(1), makeBlock(NullName, <<makeNop, makeBreak(LabelB, Null, Null)>>), Null)>>),
     makeBlock(LabelA, <<makeBreak(LabelA, I32C(7), I32C(1)), I32C(3)>>),
     makeBlock(LabelA,
       <<makeLoop(LabelB, LabelC,
           makeBlock(LabelA,
             <<makeBreak(LabelC, Null, I32C(0)), makeBreak(LabelB, Null, I32C(0)),
               makeBreak(LabelA, Null, Null)>>)),
         makeBreak(LabelA, Null, Null)>>),
     makeBlock(LabelA,
       <<makeBlock(LabelB, <<makeSwitch(<<LabelA, LabelB, LabelA>>, LabelB, Null, I32C(2))>>),
         makeUnreachable>>),
     makeBlock(NullName,
       <<makeStore(4, 8, 2, I32C(0), makeLoad(1, TRUE, 3, 1, I32C(0), "i32"), "i32"),
         makeStore(8, 0, 8, I32C(4), makeLoad(8, FALSE, 16, 4, I32C(8), "i64"), "i64"),
         makeStore(2, 1, 1, I32C(0), makeLoad(2, FALSE, 0, 2, I32C(0), "i32"), "i32")>>),
     makeBlock(NullName,
       <<makeBinary("Add", I32C(1), makeUnary("Clz", I32C(2), "i32"), "i32"),
         makeBinary("Add", I64C(1), makeUnary("Clz", I64C(2), "i64"), "i64"),
         makeBinary("Add", F32Zero(0), F32Zero(1), "f32"),
         makeSelect(F64Zero(0), F64Zero(1), I32C(1)),
         makeReturn(Null)>>),
     makeBlock(NullName,
       <<makeConst("i32", [i \in 1..W32 |-> 1]),
         makeConst("i64", [i \in 1..W64 |-> IF i = 33 THEN 1 ELSE 0]),
         makeConst("i32", [i \in 1..W32 |-> 1])>>) >>

\* functions with params and vars; local index i is param i, then the vars
LocalFunctions ==
  << makeFunction(NameF, TypeBinary.name, TypeBinary.params,
       <<"f64", "i32", "f32", "i64", "i32">>,
       makeBlock(NullName,
         <<makeSetLocal(2, F64Zero(0)), makeSetLocal(3, makeGetLocal(0, "i32")),
           makeSetLocal(4, F32Zero(0)), makeSetLocal(5, makeGetLocal(1, "i64")),
           makeSetLocal(6, makeGetLocal(3, "i32")), makeReturn(makeGetLocal(6, "i32"))>>)),
     makeFunction(NameF, TypeBinary.name, TypeBinary.params, <<"i64", "i32">>,
       makeBlock(NullName,
         <<makeSetLocal(2, makeGetLocal(1, "i64")), makeSetLocal(3, makeGetLocal(0, "i32")),
           makeReturn(makeGetLocal(3, "i32"))>>)),
     makeFunction(NameF, TypeNone.name, TypeNone.params, <<"f32", "f32", "i32">>,
       makeBlock(NullName,
         <<makeSetLocal(0, F32Zero(0)), makeSetLocal(1, makeGetLocal(0, "f32")),
           makeSetLocal(2, I32C(5))>>)) >>

\* a function g that calls f, of either type
Caller(type) ==
  makeFunction(NameG, TypeNone.name, TypeNone.params, <<>>,
    IF type = TypeNone.name
      THEN makeBlock(NullName, <<makeCall(NameF, <<>>, "none"), makeCall(NameG, <<>>, "none")>>)
      ELSE makeCall(NameF, <<I32C(1), I64C(2)>>, "i32"))

\* the functions of a module: none, one of the pool, or one of the pool and g
FunctionLists ==
  LET plain(bodies) ==
        {<<makeFunction(NameF, TypeNone.name, TypeNone.params, <<>>, bodies[i])>> :
           i \in 1..Len(bodies)}
      local(functions) ==
        {<<functions[i]>> : i \in 1..Len(functions)}
          \cup {<<functions[i], Caller(functions[i].type)>> : i \in 2..3}
  IN  {<<>>} \cup plain(PlainBodies) \cup local(LocalFunctions)

EmptyModule ==
  [functionTypes |-> <<>>, imports |-> <<>>, functions |-> <<>>, exports |-> <<>>,
   start |-> NullName, table |-> <<>>, memory |-> NoMemory]

\* what a module has besides its functions; the parts that name a function
\* are there only if the module has one
Extras(functions) ==
  LET some == Len(functions) > 0
      last == functions[Len(functions)].name
      imports == <<[name |-> <<105, 109, 112, 111, 114, 116, 36, 48>>, type |-> TypeNone.name,
                    module |-> <<109>>, base |-> <<98>>]>>
      memory == [initial |-> 1, max |-> 2, exportName |-> SectionMemory,
                 segments |-> <<[offset |-> 0, data |-> <<1, 2>>],
                                [offset |-> 4, data |-> <<3>>]>>]
  IN  { [imports |-> <<>>, exports |-> <<>>, start |-> NullName, table |-> <<>>,
         memory |-> NoMemory],
        [imports |-> imports, exports |-> <<>>, start |-> NullName, table |-> <<>>,
         memory |-> [memory EXCEPT !.segments = <<[offset |-> 0, data |-> <<>>]>>,
                                   !.exportName = NullName]],
        [imports |-> <<>>, exports |-> <<>>, start |-> NullName, table |-> <<>>,
         memory |-> [memory EXCEPT !.max = 0, !.initial = 0, !.exportName = NullName]],
        [imports |-> imports,
         exports |-> IF some THEN <<[name |-> <<120>>, value |-> NameF],
                                    [name |-> <<121>>, value |-> last]>> ELSE <<>>,
         start |-> IF some THEN last ELSE NullName,
         table |-> IF some THEN <<last, NameF>> ELSE <<>>,
         memory |-> memory],
        [imports |-> <<>>,
         exports |-> IF some THEN <<[name |-> <<120>>, value |-> NameF]>> ELSE <<>>,
         start |-> IF some THEN NameF ELSE NullName, table |-> <<>>, memory |-> NoMemory] }

ModulesOf(lists) ==
  { [functionTypes |-> types, imports |-> x.imports, functions |-> functions,
     exports |-> x.exports, start |-> x.start, table |-> x.table, memory |-> x.memory] :
      <<functions, types, x>> \in
        { <<fs, ts, e>> \in lists \X {<<>>, <<TypeNone, TypeBinary>>}
                              \X UNION {Extras(fs) : fs \in lists} :
            /\ e \in Extras(fs)
            /\ (Len(fs) > 0 \/ Len(e.imports) > 0) => ts # <<>> } }

Modules == ModulesOf(FunctionLists)

----------------------------------------------------------------------------
(* The codec as a state machine: write() section by section and body item by *)
(* item, then read() section by section and body expression by expression    *)

\* the writer's state, of the variables that hold it
writerState == [o |-> o, sections |-> sections, patches |-> patches]

\* startSection, the body, finishSection; history: the section's name, and the
\* buffer before and after the size is patched in at the slot
writeSection(w, name, body) ==
  LET finish(start, before, after) ==
        [w EXCEPT !.o = after,
                  !.sections = Append(@, name),
                  !.patches = Append(@, [what |-> "section", before |-> before,
                                         after |-> after, at |-> start, written |-> body])]
      patch(start, before) == finish(start, before, finishSection(before, start))
  IN  patch(SectionStartOf(w.o, name), startSection(w.o, name) \o body)

\* the writer moves on to next, in state w
writerStep(next, w) ==
  /\ wpc' = next
  /\ o' = w.o
  /\ sections' = w.sections
  /\ patches' = w.patches
  /\ UNCHANGED <<lebVars, passVars, wasm, optimize, pass, fw, opcodeInfo, opcodeTable, mappedLog,
                 brLog, corruption, rd>>

\* a write function that returns early unless there is something to write
writeIf(present, name, body) ==
  IF present THEN writeSection(writerState, name, body) ELSE writerState

WriteHeader ==
  /\ wpc = "header"
  /\ writerStep("signatures",
       [writerState EXCEPT !.o = @ \o IntBytes(U32(Magic)) \o IntBytes(U32(Version))])

WriteSignatures ==
  /\ wpc = "signatures"
  /\ writerStep("imports",
       writeIf(Len(wasm.functionTypes) # 0, SectionSignatures, SignaturesBody(wasm)))

WriteImports ==
  /\ wpc = "imports"
  /\ writerStep("functionSignatures",
       writeIf(Len(wasm.imports) # 0, SectionImportTable, ImportsBody(wasm)))

WriteFunctionSignatures ==
  /\ wpc = "functionSignatures"
  /\ writerStep("functionTable",
       writeIf(Len(wasm.functions) # 0, SectionFunctionSignatures,
               FunctionSignaturesBody(wasm)))

WriteFunctionTable ==
  /\ wpc = "functionTable"
  /\ writerStep("memory",
       writeIf(Len(wasm.table) # 0, SectionFunctionTable, FunctionTableBody(wasm)))

\* a variant of writeMemory without the early return
WriteMemoryAlways ==
  /\ wpc = "memory"
  /\ writerStep("exports", writeSection(writerState, SectionMemory, MemoryBody(wasm)))

\* writeMemory
WriteMemory ==
  /\ wpc = "memory"
  /\ writerStep("exports", writeIf(wasm.memory.max # 0, SectionMemory, MemoryBody(wasm)))

WriteExports ==
  /\ wpc = "exports"
  /\ writerStep("start",
       writeIf(Len(wasm.exports) # 0, SectionExportTable, ExportsBody(wasm)))

WriteStart ==
  /\ wpc = "start"
  /\ writerStep("functions", writeIf(wasm.start # NullName, SectionStart, StartBody(wasm)))

\* the writer between functions
NoFunction ==
  [i |-> 0, sectionStart |-> 0, sizePos |-> 0, mappedLocals |-> EmptyMap,
   breakStack |-> <<>>, scopes |-> <<>>, work |-> <<>>]

\* writeFunctions up to its loop; the Postprocessor writes the opcode table first
WriteFunctions ==
  /\ wpc = "functions"
  /\ LET begin(w, total) ==
           /\ patches' = w.patches
           /\ IF total = 0
                THEN /\ wpc' = "dataSegments"
                     /\ o' = w.o
                     /\ sections' = w.sections
                     /\ fw' = fw
                ELSE /\ wpc' = "function"
                     /\ o' = startSection(w.o, SectionFunctions) \o U32LEBBytes(total)
                     /\ sections' = Append(w.sections, SectionFunctions)
                     /\ fw' = [NoFunction EXCEPT
                                 !.sectionStart = SectionStartOf(w.o, SectionFunctions)]
     IN  begin(IF pass = "post"
                 THEN writeSection(writerState, SectionOpcodes, OpcodesBody(opcodeTable))
                 ELSE writerState,
               Len(wasm.functions))
  /\ UNCHANGED <<lebVars, passVars, wasm, optimize, pass, opcodeInfo, opcodeTable, mappedLog,
                 brLog, corruption, rd>>

\* an iteration of the loop of writeFunctions up to recurse(function->body)
WriteFunction ==
  /\ wpc = "function"
  /\ LET begin(function, m) ==
           /\ o' = o \o Placeholder \o LocalsHeader(m.numLocalsByType)
           /\ fw' = [fw EXCEPT !.sizePos = Len(o), !.mappedLocals = m.mappedLocals,
                               !.work = <<VisitItem(function.body)>>]
           /\ mappedLog' = Append(mappedLog, [function |-> fw.i + 1,
                                               mappedLocals |-> m.mappedLocals,
                                               numLocalsByType |-> m.numLocalsByType])
     IN  begin(wasm.functions[fw.i + 1],
               mapLocals(wasm.functions[fw.i + 1], EmptyMap, NoLocalsByType))
  /\ wpc' = "body"
  /\ UNCHANGED <<lebVars, passVars, wasm, optimize, pass, opcodeInfo, opcodeTable, sections,
                 patches, brLog, corruption, rd>>

\* recurse(function->body), the next item of it
WriteExpression ==
  /\ wpc = "body"
  /\ fw.work # <<>>
  /\ LET written(s1) ==
           /\ s1.ok
           /\ o' = s1.o
           /\ fw' = [fw EXCEPT !.breakStack = s1.breakStack, !.scopes = s1.scopes,
                               !.work = s1.work]
           /\ brLog' = s1.log
           /\ opcodeInfo' = s1.info
     IN  written(writeItem([o |-> o, breakStack |-> fw.breakStack, scopes |-> fw.scopes,
                            log |-> brLog, info |-> opcodeInfo, ok |-> TRUE,
                            work |-> Tail(fw.work)],
                           [wasm |-> wasm, mappedLocals |-> fw.mappedLocals, kind |-> pass,
                            table |-> opcodeTable],
                           Head(fw.work)))
  /\ UNCHANGED <<lebVars, passVars, wasm, optimize, wpc, pass, opcodeTable, sections, patches,
                 mappedLog, corruption, rd>>

\* the iteration from the end of the body on: the size of the body is patched in
FinishFunction ==
  /\ wpc = "body"
  /\ fw.work = <<>>
  /\ LET patch(start, after) ==
           /\ o' = after
           /\ patches' = Append(patches, [what |-> "function", before |-> o, after |-> after,
                                          at |-> fw.sizePos,
                                          written |-> SubSeq(o, start + 1, Len(o))])
     IN  patch(fw.sizePos + 5, BufferWriteAt(o, fw.sizePos, Len(o) - (fw.sizePos + 5)))
  /\ fw' = [fw EXCEPT !.i = @ + 1]
  /\ wpc' = IF fw.i + 1 < Len(wasm.functions) THEN "function" ELSE "finishFunctions"
  /\ UNCHANGED <<lebVars, passVars, wasm, optimize, pass, opcodeInfo, opcodeTable, sections,
                 mappedLog, brLog, corruption, rd>>

\* writeFunctions after its loop: finishSection(start)
FinishFunctions ==
  /\ wpc = "finishFunctions"
  /\ LET patch(after) ==
           /\ o' = after
           /\ patches' = Append(patches, [what |-> "section", before |-> o, after |-> after,
                                          at |-> fw.sectionStart,
                                          written |-> SubSeq(o, fw.sectionStart + 6, Len(o))])
     IN  patch(finishSection(o, fw.sectionStart))
  /\ fw' = NoFunction
  /\ wpc' = "dataSegments"
  /\ UNCHANGED <<lebVars, passVars, wasm, optimize, pass, opcodeInfo, opcodeTable, sections,
                 mappedLog, brLog, corruption, rd>>

WriteDataSegments ==
  /\ wpc = "dataSegments"
  /\ writerStep("names",
       writeIf(Len(wasm.memory.segments) # 0, SectionDataSegments, DataSegmentsBody(wasm)))

WriteNames ==
  /\ wpc = "names"
  /\ writerStep("finishUp", writeIf(Len(wasm.functions) # 0, SectionNames, NamesBody(wasm)))

\* finishUp: the writer emits no buffers, so there is nothing to finish
FinishUp ==
  /\ wpc = "finishUp"
  /\ writerStep(IF pass = "pre" THEN "table" ELSE "done", writerState)

\* after the Preprocessor: buffer.clear(), OpcodeTable(opcodeInfo), and a
\* Postprocessor to write with it; the histories are those of one writer
MakeOpcodeTable ==
  /\ wpc = "table"
  /\ opcodeTable' \in OpcodeTables(opcodeInfo)
  /\ pass' = "post"
  /\ wpc' = "header"
  /\ o' = <<>>
  /\ sections' = <<>>
  /\ patches' = <<>>
  /\ mappedLog' = <<>>
  /\ brLog' = <<>>
  /\ UNCHANGED <<lebVars, passVars, wasm, optimize, fw, opcodeInfo, corruption, rd>>

\* What may be done to the bytes before the reader gets them.  Each way makes
\* them malformed at one place, found with what the writer noted of its output:
\*   magic, version     the first byte of the word is another
\*   section name       the first section's name begins with a z
\*   truncated LEB      the bytes end inside the first section's size
\*   section size       the first section declares one byte more
\*   opcode             the last opcode of the last body, an End, is 255
\*   break depth        the depth of the first br or br_if is 100
\*   local index        the get_local a body begins with reads local 100
\*   binary type        the first i32.add of the last body is an i64.add
Corruptions ==
  {"magic", "version", "section name", "truncated LEB", "section size", "opcode",
   "break depth", "local index", "binary type"}

\* bytes with the byte at offset at (from 0) set to b
SetByte(bytes, at, b) == [i \in 1..Len(bytes) |-> IF i = at + 1 THEN b ELSE bytes[i]]

\* the offsets in bytes, from 0, that pick holds of
Offsets(bytes, pick(_)) == {at \in 0..(Len(bytes) - 1) : pick(at)}

\* the least of a set of offsets
First(offsets) == CHOOSE at \in offsets : \A other \in offsets : at <= other

\* the bytes the reader is given: those written, unless how finds its place
Corrupted(bytes, how) ==
  LET nameSize == bytes[9]
      slot == 8 + 1 + nameSize
      bodies == {i \in 1..Len(patches) : patches[i].what = "function"}
      last == patches[CHOOSE i \in bodies : \A j \in bodies : j <= i]
      inLast(at) == at >= last.at + 5 /\ at < last.at + 5 + Len(last.written)
      breaks == {i \in 1..Len(brLog) : bytes[brLog[i].at + 1] \in {Br, BrIf}}
      firstBreak == brLog[CHOOSE i \in breaks : \A j \in breaks : i <= j]
      first == patches[CHOOSE i \in bodies : \A j \in bodies : i <= j]
      code == first.at + 5 + Len(LocalsHeader(mappedLog[1].numLocalsByType))
      adds == Offsets(bytes, LAMBDA at : inLast(at) /\ bytes[at + 1] = I32Add)
  IN  CASE how = "magic" -> SetByte(bytes, 0, (bytes[1] + 1) % 256)
        [] how = "version" -> SetByte(bytes, 4, (bytes[5] + 1) % 256)
        [] how = "section name" /\ Len(bytes) > 8 -> SetByte(bytes, 9, 122)
        [] how = "truncated LEB" /\ Len(bytes) > 8 -> SubSeq(bytes, 1, slot + 2)
        [] how = "section size" /\ Len(bytes) > 8 ->
             SetByte(bytes, slot, 128 + ((bytes[slot + 1] + 1) % 128))
        [] how = "opcode" /\ bodies # {} /\ bytes[last.at + 5 + Len(last.written)] = End ->
             SetByte(bytes, last.at + 5 + Len(last.written) - 1, 255)
        [] how = "break depth" /\ pass = "writer" /\ breaks # {} ->
             SetByte(bytes, firstBreak.at + 2, 100)
        [] how = "local index" /\ pass = "writer" /\ bodies # {}
             /\ bytes[code + 1] = Block /\ bytes[code + 2] = GetLocal ->
             SetByte(bytes, code + 2, 100)
        [] how = "binary type" /\ bodies # {} /\ adds # {} ->
             SetByte(bytes, First(adds), I64Add)
        [] OTHER -> bytes

\* the reader's state between steps: what a step left for itself is dropped
settle(r) ==
  [r EXCEPT !.status = IF r.ok THEN @ ELSE "aborted",
            !.val = 0, !.bits = <<>>, !.curr = Null, !.code = 0,
            !.expressionStack = IF r.ok THEN @ ELSE <<>>,
            !.frames = IF r.ok THEN @ ELSE <<>>,
            !.breakStack = IF r.ok THEN @ ELSE <<>>,
            !.scopes = IF r.ok THEN @ ELSE <<>>]

readerStep(r) ==
  /\ rd' = settle(r)
  /\ UNCHANGED <<lebVars, passVars, wasm, optimize, o, wpc, pass, fw, opcodeInfo, opcodeTable,
                 sections, patches, mappedLog, brLog, corruption>>

\* read(): readHeader
ReadHeader ==
  /\ wpc = "done"
  /\ rd.status = "idle"
  /\ LET given(bytes) ==
           /\ corruption # "none" => bytes # o
           /\ readerStep([readHeader(NewReader(bytes)) EXCEPT !.status = "sections"])
     IN  given(Corrupted(o, corruption))

\* read(): one iteration of while (more()), for the code section up to the
\* loop of readFunctions
ReadSection ==
  /\ rd.status = "sections"
  /\ more(rd)
  /\ readerStep(readSection(rd))

\* readFunctions: an iteration of its loop up to the body
ReadFunction ==
  /\ rd.status = "function"
  /\ readerStep(readFunction(rd))

\* readFunctions: one readExpression of the body, and what returns with it
ReadExpression ==
  /\ rd.status = "body"
  /\ readerStep(processExpression(rd))

IterationOrders(n) ==
  { p \in [1..n -> 1..n] : \A i, j \in 1..n : p[i] = p[j] => i = j }

\* read(): processFunctions, then the validator
ProcessFunctions ==
  /\ rd.status = "sections"
  /\ ~more(rd)
  /\ \E order \in IterationOrders(Len(rd.exportIndexes)) :
       LET validated(r) ==
             readerStep([(IF r.ok THEN Check(r, validate(readerModule(r)), "invalid") ELSE r)
                           EXCEPT !.status = "done"])
       IN  validated(processFunctions(rd, order))

\* ReorderFunctions does not run
CountIdle ==
  /\ uses = <<>>
  /\ workers = <<>>
  /\ visits = <<>>
  /\ inserted = FALSE

\* no pass runs
PassIdle ==
  /\ program = [arena |-> <<>>, functions |-> <<>>]
  /\ current = 0
  /\ walker = [ok |-> TRUE]
  /\ alone = [ok |-> TRUE]
  /\ finished = <<>>
  /\ ppc = "idle"
  /\ CountIdle
  /\ refine = <<>>
  /\ returns = <<>>

IdleReader == [NewReader(<<>>) EXCEPT !.status = "idle"]

CodecInit ==
  /\ PassIdle
  /\ wasm \in Modules
  /\ optimize \in BOOLEAN
  /\ optimize => \A i \in 1..Len(wasm.functions) : wasm.functions[i] # LocalFunctions[1]
  /\ pass = IF optimize THEN "pre" ELSE "writer"
  /\ wpc = "header"
  /\ o = <<>>
  /\ fw = NoFunction
  /\ opcodeInfo = NewOpcodeInfo
  /\ opcodeTable = NoTable
  /\ sections = <<>>
  /\ patches = <<>>
  /\ mappedLog = <<>>
  /\ brLog = <<>>
  /\ corruption = "none"
  /\ rd = IdleReader
  /\ lebType = "U32LEB"
  /\ lebValue = <<>>
  /\ lebOut = <<>>
  /\ lebRead = [ok |-> FALSE, value |-> <<>>, pos |-> 0]
  /\ lebPc = "idle"

CodecNext ==
  \/ WriteHeader
  \/ WriteSignatures
  \/ WriteImports
  \/ WriteFunctionSignatures
  \/ WriteFunctionTable
  \/ WriteMemory
  \/ WriteExports
  \/ WriteStart
  \/ WriteFunctions
  \/ WriteFunction
  \/ WriteExpression
  \/ FinishFunction
  \/ FinishFunctions
  \/ WriteDataSegments
  \/ WriteNames
  \/ FinishUp
  \/ MakeOpcodeTable
  \/ ReadHeader
  \/ ReadSection
  \/ ReadFunction
  \/ ReadExpression
  \/ ProcessFunctions

SpecCodec == CodecInit /\ [][CodecNext]_vars

\* the modules whose bytes are corrupted: a body with breaks, one with locals,
\* one with binary operators; with nothing else, or with every section
MalformedModules ==
  LET lists(bodies) ==
        { <<makeFunction(NameF, TypeNone.name, TypeNone.params, <<>>, bodies[i])>> :
            i \in {2, 10} } \cup {<<LocalFunctions[2]>>}
  IN  { m \in ModulesOf(lists(PlainBodies)) :
          /\ Len(m.functionTypes) = 2
          /\ Len(m.imports) > 0 => Len(m.exports) > 0 }

\* the codec, the reader being given corrupted bytes
MalformedInit ==
  /\ PassIdle
  /\ wasm \in MalformedModules
  /\ optimize \in BOOLEAN
  /\ pass = IF optimize THEN "pre" ELSE "writer"
  /\ wpc = "header"
  /\ o = <<>>
  /\ fw = NoFunction
  /\ opcodeInfo = NewOpcodeInfo
  /\ opcodeTable = NoTable
  /\ sections = <<>>
  /\ patches = <<>>
  /\ mappedLog = <<>>
  /\ brLog = <<>>
  /\ corruption \in Corruptions
  /\ rd = IdleReader
  /\ lebType = "U32LEB"
  /\ lebValue = <<>>
  /\ lebOut = <<>>
  /\ lebRead = [ok |-> FALSE, value |-> <<>>, pos |-> 0]
  /\ lebPc = "idle"

SpecMalformed == MalformedInit /\ [][CodecNext]_vars

----------------------------------------------------------------------------
(* C1: the plain round trip *)

RECURSIVE SameShape(_, _)
\* the same tree: the same kind of node with the same number of children, all
\* the way down
SameShape(a, b) ==
  /\ a.k = b.k
  /\ Len(a.kids) = Len(b.kids)
  /\ \A i \in 1..Len(a.kids) : SameShape(a.kids[i], b.kids[i])

\* the reader has returned a module for what the writer of this kind wrote
Decoded(kind) == rd.status = "done" /\ pass = kind

\* C1: what WasmBinaryBuilder::read decodes from the bytes of
\* WasmBinaryWriter::write has, at each index, a function of the same name whose
\* body has the same tree shape as in the module written.
C1_RoundTrip ==
  Decoded("writer") =>
    /\ Len(rd.functions) = Len(wasm.functions)
    /\ \A i \in 1..Len(wasm.functions) :
         /\ rd.functions[i].name = wasm.functions[i].name
         /\ SameShape(wasm.functions[i].body, rd.functions[i].body)

----------------------------------------------------------------------------
(* C2: the round trip through the opcode table *)

RECURSIVE Instructions(_, _)
RECURSIVE InstructionsOf(_, _, _)

\* an instruction without its children and labels: its kind, operator, type,
\* literal, the local it accesses (as the writer numbers it), the function it
\* calls, the bytes, sign, alignment and offset of its memory access, the
\* number of targets of its switch
Instruction(e, mapped) ==
  [e EXCEPT !.kids = [i \in 1..Len(@) |-> IF @[i].k = "Null" THEN "absent" ELSE "present"],
            !.name = IF e.k = "Call" THEN @ ELSE NullName,
            !.name2 = NullName,
            !.targets = [i \in 1..Len(@) |-> NullName],
            !.idx = IF e.k \in {"GetLocal", "SetLocal"} THEN MapAt(mapped, @) ELSE 0,
            !.type = IF e.k \in {"Const", "Load", "Store", "Unary", "Binary"} THEN @ ELSE "none"]

\* the instructions of a body in the order they are written, the blocks left out
Instructions(e, mapped) ==
  IF e.k = "Null" THEN <<>>
  ELSE InstructionsOf(e.kids, 1, mapped)
         \o (IF e.k = "Block" THEN <<>> ELSE <<Instruction(e, mapped)>>)

InstructionsOf(list, i, mapped) ==
  IF i > Len(list) THEN <<>>
  ELSE Instructions(list[i], mapped) \o InstructionsOf(list, i + 1, mapped)

\* the map of the locals of a function that was read: each is where it is
SameLocals(function) == [x \in 0..(getNumLocals(function) - 1) |-> x]

\* C2: what WasmBinaryBuilder::read decodes from the bytes of the Postprocessor,
\* for any table OpcodeTable(OpcodeInfo) may build from the Preprocessor's
\* run, has the instructions of the module written, each with its immediates:
\* constants, local indices, call targets, the alignment and offset of loads
\* and stores.
C2_TableRoundTrip ==
  Decoded("post") =>
    /\ Len(rd.functions) = Len(wasm.functions)
    /\ \A i \in 1..Len(wasm.functions) :
         Instructions(rd.functions[i].body, SameLocals(rd.functions[i]))
           = Instructions(wasm.functions[i].body, mappedLog[i].mappedLocals)

----------------------------------------------------------------------------
(* C6: the size slots *)

\* C6: at every back-patch of a section or a function body, the slot is the
\* five placeholder bytes, the patched buffer differs from the one before only
\* inside the slot, and the slot reads as an unsigned LEB of exactly five bytes
\* whose value is the number of bytes written after the slot.
C6_SizeSlots ==
  \A i \in 1..Len(patches) :
    LET p == patches[i]
        size == LEBRead(p.after, p.at, FALSE, W32)
    IN  /\ SubSeq(p.before, p.at + 1, p.at + 5) = Placeholder
        /\ Len(p.after) = Len(p.before)
        /\ \A j \in 1..Len(p.before) : (j <= p.at \/ j > p.at + 5) => p.after[j] = p.before[j]
        /\ size.ok
        /\ size.pos = p.at + 5
        /\ Value(size.value) = Len(p.before) - (p.at + 5)
        /\ p.written = SubSeq(p.before, p.at + 6, Len(p.before))

\* C6 witness: the writer is done, having patched the size of a function body
\* and of a section after it, both with bytes in them
C6_Patched ==
  /\ wpc = "done"
  /\ \E i, j \in 1..Len(patches) :
       /\ i < j
       /\ patches[i].at > patches[j].at
       /\ Len(patches[i].written) > 1
       /\ Len(patches[j].written) > Len(patches[i].written)

----------------------------------------------------------------------------
(* C7: break depths *)

\* the place in a break stack of the innermost entry that carries the name
Innermost(breakStack, name) ==
  CHOOSE j \in 1..Len(breakStack) :
    /\ breakStack[j] = name
    /\ \A k \in (j + 1)..Len(breakStack) : breakStack[k] # name

\* C7: the reader resolves every break depth and switch target it reads to the
\* scope the writer meant: the innermost scope around the break that carries the
\* target's name, a scope being the block, loop (out or in) or if arm opened at
\* a position of the binary.
C7_BreakDepth ==
  rd.status = "done" =>
    /\ Len(rd.log) = Len(brLog)
    /\ \A i \in 1..Len(brLog) :
         /\ rd.log[i].at = brLog[i].at
         /\ \E j \in 1..Len(brLog[i].breakStack) : brLog[i].breakStack[j] = brLog[i].name
         /\ rd.log[i].scope = brLog[i].scopes[Innermost(brLog[i].breakStack, brLog[i].name)]

\* C7 witness: a module is decoded in which a break from inside a block inside
\* a loop went to the loop's outer scope, and a name carried by two scopes was
\* resolved to the inner of them
C7_Resolved ==
  /\ rd.status = "done"
  /\ \E i \in 1..Len(brLog) : brLog[i].index >= 2 /\ rd.log[i].scope.which = "out"
  \/ /\ rd.status = "done"
     /\ \E i \in 1..Len(brLog) :
          /\ Cardinality({j \in 1..Len(brLog[i].breakStack) :
                            brLog[i].breakStack[j] = brLog[i].name}) > 1
          /\ rd.log[i].scope.which = "block"

----------------------------------------------------------------------------
(* C8: the locals *)

\* C8: in the function decoded, the local at mappedLocals[x] has the type of
\* local x of the function written; mappedLocals keeps every param where it is,
\* is one to one, and puts the vars in the order i32, i64, f32, f64, in source
\* order within a type.
C8_MappedLocals ==
  rd.status = "done" =>
    \A i \in 1..Len(wasm.functions) :
      LET f == wasm.functions[i]
          g == rd.functions[i]
          m == mappedLog[i].mappedLocals
          locals == 0..(getNumLocals(f) - 1)
          additional == getVarIndexBase(f)..(getNumLocals(f) - 1)
      IN  /\ DOMAIN m = locals
          /\ getNumLocals(g) = getNumLocals(f)
          /\ \A x \in locals : m[x] \in locals /\ getLocalType(g, m[x]) = getLocalType(f, x)
          /\ \A x \in 0..(getNumParams(f) - 1) : m[x] = x
          /\ \A x, y \in locals : x # y => m[x] # m[y]
          /\ \A x, y \in additional :
               (\/ TypeRank(getLocalType(f, x)) < TypeRank(getLocalType(f, y))
                \/ (getLocalType(f, x) = getLocalType(f, y) /\ x < y))
                 => m[x] < m[y]

\* C8 witness: a function is decoded whose vars, of three types or more, are
\* not in the order of the types, so that a var moved
C8_Reordered ==
  /\ rd.status = "done"
  /\ \E i \in 1..Len(wasm.functions) :
       /\ Cardinality({wasm.functions[i].vars[j] : j \in 1..Len(wasm.functions[i].vars)}) >= 3
       /\ \E x \in DOMAIN mappedLog[i].mappedLocals : mappedLog[i].mappedLocals[x] # x

----------------------------------------------------------------------------
(* C9: the sections *)

\* the sections of the given order that are to be there
Present(order) ==
  LET keep == {i \in 1..Len(order) : order[i].present}
      nth(k) == CHOOSE i \in keep : Cardinality({j \in keep : j < i}) = k - 1
  IN  [k \in 1..Cardinality(keep) |-> order[nth(k)].name]

\* C9, as amended: the sections are, in this order, type, import, function,
\* table, memory, export, start, then with opcode table compression the opcode
\* section, then code, data, name.  The opcode section is there whenever the
\* Postprocessor writes, whatever the table and the module hold; type, import,
\* table and export are there when the module has any; function, code and name
\* when it has functions; memory when memory.max is not 0; start when there is
\* a start function; data when the module has segments, empty or not.
C9_SectionOrder ==
  wpc = "done" =>
    sections = Present(<<
      [name |-> SectionSignatures, present |-> Len(wasm.functionTypes) > 0],
      [name |-> SectionImportTable, present |-> Len(wasm.imports) > 0],
      [name |-> SectionFunctionSignatures, present |-> Len(wasm.functions) > 0],
      [name |-> SectionFunctionTable, present |-> Len(wasm.table) > 0],
      [name |-> SectionMemory, present |-> wasm.memory.max # 0],
      [name |-> SectionExportTable, present |-> Len(wasm.exports) > 0],
      [name |-> SectionStart, present |-> wasm.start # NullName],
      [name |-> SectionOpcodes, present |-> optimize],
      [name |-> SectionFunctions, present |-> Len(wasm.functions) > 0],
      [name |-> SectionDataSegments, present |-> Len(wasm.memory.segments) > 0],
      [name |-> SectionNames, present |-> Len(wasm.functions) > 0] >>)

\* C9 witness: the Postprocessor has written a module that has all eleven
\* sections
C9_AllSections == wpc = "done" /\ pass = "post" /\ Len(sections) = 11

\* C9, as stated: the sections are in the order type, import, function, table,
\* memory, export, start, code, data, name, opcode, and each is there only when
\* it has something in it (memory: only when memory.max > 0).
C9_AsStated ==
  LET order == <<SectionSignatures, SectionImportTable, SectionFunctionSignatures,
                 SectionFunctionTable, SectionMemory, SectionExportTable, SectionStart,
                 SectionFunctions, SectionDataSegments, SectionNames, SectionOpcodes>>
      place(name) == CHOOSE k \in 1..Len(order) : order[k] = name
      nonEmpty(name) ==
        CASE name = SectionSignatures -> Len(wasm.functionTypes) > 0
          [] name = SectionImportTable -> Len(wasm.imports) > 0
          [] name = SectionFunctionSignatures -> Len(wasm.functions) > 0
          [] name = SectionFunctionTable -> Len(wasm.table) > 0
          [] name = SectionMemory -> wasm.memory.max > 0
          [] name = SectionExportTable -> Len(wasm.exports) > 0
          [] name = SectionStart -> wasm.start # NullName
          [] name = SectionFunctions -> Len(wasm.functions) > 0
          [] name = SectionDataSegments ->
               \E i \in 1..Len(wasm.memory.segments) : Len(wasm.memory.segments[i].data) > 0
          [] name = SectionNames -> Len(wasm.functions) > 0
          [] name = SectionOpcodes -> Len(opcodeTable) > 0
  IN  wpc = "done" =>
        /\ \A i, j \in 1..Len(sections) : i < j => place(sections[i]) < place(sections[j])
        /\ \A i \in 1..Len(sections) : nonEmpty(sections[i])

----------------------------------------------------------------------------
(* C10: malformed input *)

\* C10: the reader returns no module for bytes that are malformed in one of
\* the ways of Corruptions: read() does not get to its end.
C10_MalformedAborts == corruption # "none" => rd.status # "done"

\* the same of all the ways but the type mismatch at a binary operation
C10_StructuralAborts ==
  corruption \in Corruptions \ {"binary type"} => rd.status # "done"

----------------------------------------------------------------------------
(* The LEB bench: write a value, read it back *)

\* the values tried: a run of ones at bits lo..hi-1, or its complement
RunBits(lo, hi, inv, w) ==
  [i \in 1..w |-> IF (i - 1 >= lo /\ i - 1 < hi) THEN 1 - inv ELSE inv]

LEBValues(w) == { RunBits(lo, hi, inv, w) : lo \in 0..w, hi \in 0..w, inv \in {0, 1} }

NoRead == [ok |-> FALSE, value |-> <<>>, pos |-> 0]

LEBInit ==
  /\ PassIdle
  /\ lebType \in LEBTypes
  /\ lebValue \in LEBValues(LEBWidth(lebType))
  /\ lebOut = <<>>
  /\ lebRead = NoRead
  /\ lebPc = "write"
  /\ wasm = EmptyModule
  /\ optimize = FALSE
  /\ wpc = "idle"
  /\ pass = "writer"
  /\ fw = NoFunction
  /\ opcodeInfo = NewOpcodeInfo
  /\ o = <<>>
  /\ opcodeTable = NoTable
  /\ sections = <<>>
  /\ patches = <<>>
  /\ mappedLog = <<>>
  /\ brLog = <<>>
  /\ corruption = "none"
  /\ rd = IdleReader

LEBDoWrite ==
  /\ lebPc = "write"
  /\ lebOut' = LEBWrite(lebValue, LEBSigned(lebType))
  /\ lebPc' = "read"
  /\ UNCHANGED <<lebType, lebValue, lebRead, codecVars, passVars>>

LEBDoRead ==
  /\ lebPc = "read"
  /\ lebRead' = LEBRead(lebOut, 0, LEBSigned(lebType), LEBWidth(lebType))
  /\ lebPc' = "done"
  /\ UNCHANGED <<lebType, lebValue, lebOut, codecVars, passVars>>

LEBNext == LEBDoWrite \/ LEBDoRead

SpecLEB == LEBInit /\ [][LEBNext]_vars

----------------------------------------------------------------------------
\* C5: for every value v of each LEB type, LEB::read of the bytes LEB::write
\* produced returns v and consumes exactly those bytes, and for the signed
\* types the last byte written carries the sign of v.
C5_RoundTrip ==
  lebPc = "done" =>
    /\ lebRead.ok
    /\ lebRead.value = lebValue
    /\ lebRead.pos = Len(lebOut)
    /\ LEBSigned(lebType) =>
         ((lebOut[Len(lebOut)] \div 64) % 2 = lebValue[Len(lebValue)])

----------------------------------------------------------------------------
(* The arena, and the walkers of wasm-traversal.h.  A pass works on nodes in *)
(* the module's arena: a node is an Expression whose kids are the numbers of *)
(* its children (0 for a null pointer).  An Expression** is a Slot: the kid  *)
(* of a node, or the body of the function.  For the passes a Loop has one    *)
(* name, the label of its top, and a Drop has kids <<value>>.                *)

Slot(node, kid) == [node |-> node, kid |-> kid]
BodySlot == Slot(0, 0)

RECURSIVE Paths(_)
\* the places of the nodes of an expression: the kids to go down by from the root
Paths(tree) ==
  {<<>>} \cup UNION { { <<i>> \o p : p \in Paths(tree.kids[i]) } :
                        i \in { j \in 1..Len(tree.kids) : tree.kids[j].k # "Null" } }

RECURSIVE nodeAt(_, _)
nodeAt(tree, p) == IF p = <<>> THEN tree ELSE nodeAt(tree.kids[Head(p)], Tail(p))

\* the node at q is made before the node at p: children first, in their order
MadeBefore(q, p) ==
  LET same == { k \in 1..Len(q) : k <= Len(p) /\ \A j \in 1..k : q[j] = p[j] }
      at == Cardinality(same) + 1
  IN  /\ q # p
      /\ at <= Len(q)
      /\ at > Len(p) \/ q[at] < p[at]

\* allocator.alloc<T>() for each node of an expression, children first: the
\* arena with the nodes added, and the root
allocate(a, tree) ==
  LET paths == Paths(tree)
      idOf(p) == Len(a) + Cardinality({ q \in paths : MadeBefore(q, p) }) + 1
      kid(p, i) == IF nodeAt(tree, p).kids[i].k = "Null" THEN 0 ELSE idOf(Append(p, i))
      node(p) == [nodeAt(tree, p) EXCEPT !.kids = [i \in 1..Len(nodeAt(tree, p).kids) |-> kid(p, i)]]
      added == [i \in 1..Cardinality(paths) |->
                  node(CHOOSE p \in paths : idOf(p) = Len(a) + i)]
  IN  IF tree.k = "Null" THEN [arena |-> a, id |-> 0]
      ELSE [arena |-> a \o added, id |-> Len(a) + Cardinality(paths)]

RECURSIVE expressionOf(_, _)
\* the expression a pointer points to
expressionOf(a, id) ==
  IF id = 0 THEN Null
  ELSE [a[id] EXCEPT !.kids = [i \in 1..Len(a[id].kids) |-> expressionOf(a, a[id].kids[i])]]

\* *currp
deref(w, currp) ==
  IF currp.node = 0 THEN w.func.body ELSE w.arena[currp.node].kids[currp.kid]

\* *currp = id
assign(w, currp, id) ==
  IF currp.node = 0 THEN [w EXCEPT !.func.body = id]
  ELSE [w EXCEPT !.arena[currp.node].kids[currp.kid] = id]

\* a task of the walker's stack
Task(f, currp) == [f |-> f, currp |-> currp]

\* the tasks pushed run in this order, before those already there
pushTasks(w, tasks) == [w EXCEPT !.stack = tasks \o @]

\* the task at the top is popped
popTask(w) == [w EXCEPT !.stack = Tail(@)]

\* pushTask(scan, &child) for each child there is, in the order they run
scanChildren(w, id) ==
  SelectSeq([i \in 1..Len(w.arena[id].kids) |-> Task("scan", Slot(id, i))],
            LAMBDA t : w.arena[id].kids[t.currp.kid] # 0)

\* PostWalker::scan: the children, then the visit
postScan(w, currp) ==
  scanChildren(w, deref(w, currp)) \o <<Task("visit", currp)>>

\* LinearExecutionWalker::scan: doNoteNonLinear at the end of a named block,
\* after the condition and after each arm of an if, at the top of a loop, and
\* before the visit of a break, switch, return or unreachable
linearScan(w, currp) ==
  LET note == Task("noteNonLinear", currp)
      scan(id, i) == Task("scan", Slot(id, i))
      tasks(id, node) ==
        CASE node.k = "Block" /\ node.name # NullName -> scanChildren(w, id) \o <<note>>
          [] node.k = "If" ->
               <<scan(id, 1), note, scan(id, 2), note>>
                 \o (IF node.kids[3] # 0 THEN <<scan(id, 3), note>> ELSE <<>>)
          [] node.k = "Loop" -> <<note, scan(id, 1)>>
          [] node.k \in {"Break", "Switch", "Return", "Unreachable"} ->
               scanChildren(w, id) \o <<note>>
          [] OTHER -> scanChildren(w, id)
      all(id) == tasks(id, w.arena[id]) \o <<Task("visit", currp)>>
  IN  all(deref(w, currp))

\* m.erase(k)
MapErase(m, k) == [x \in (DOMAIN m) \ {k} |-> m[x]]

\* the orders an unordered container may be iterated in
Orders(keys) ==
  { p \in [1..Cardinality(keys) -> keys] : \A i, j \in 1..Cardinality(keys) : p[i] = p[j] => i = j }

\* Builder::addVar: the function with one more var
addVar(func, type) == [func EXCEPT !.vars = Append(@, type)]

\* Builder::makeSequence: a block without a name of the two
makeSequence(left, right) == makeBlock(NullName, <<left, right>>)

\* a node is put in the arena, its kids being nodes of the arena
allocNode(w, node) == [w EXCEPT !.arena = Append(@, node)]

----------------------------------------------------------------------------
(* LoopVarSplitting *)

\* a LoopVarSplitting as it is made: currFinalSets, loopEntries
NewLoopVarSplitting == [currFinalSets |-> EmptyMap, loopEntries |-> EmptyMap]

\* loopEntries[name], made empty if it is not there
entriesOf(self, name) ==
  IF name \in DOMAIN self.loopEntries THEN self.loopEntries[name] ELSE <<>>

\* noteNonLinear(curr); a break with a value to a loop top fails the assert
lvsNoteNonLinear(w, curr) ==
  LET clear(entries) ==
        [w EXCEPT !.self = [currFinalSets |-> EmptyMap, loopEntries |-> entries]]
      enter(name) ==
        clear(MapPut(w.self.loopEntries, name,
                     Append(entriesOf(w.self, name), w.self.currFinalSets)))
      note(node) ==
        CASE node.k = "Break" /\ node.kids[2] # 0 -> clear(MapErase(w.self.loopEntries, node.name))
          [] node.k = "Break" /\ node.name \in DOMAIN w.self.loopEntries ->
               IF node.kids[1] # 0 THEN [w EXCEPT !.ok = FALSE] ELSE enter(node.name)
          [] node.k = "Loop" /\ node.name # NullName -> enter(node.name)
          [] OTHER -> clear(w.self.loopEntries)
  IN  note(w.arena[curr])

\* visitLoop that gives the new index to the set of entries[0] alone
splitLoopVarFirstOnly(w, curr, entries, index) ==
  LET type == getLocalType(w.func, index)
      newIndex == getNumLocals(w.func)
      get == Len(w.arena) + 1
      set == Len(w.arena) + 2
      sequence == Len(w.arena) + 3
      sets == { entries[1][index] }
      node(i) ==
        CASE i = get -> makeGetLocal(newIndex, type)
          [] i = set -> [makeSetLocal(index, Null) EXCEPT !.kids = <<get>>, !.type = "none"]
          [] i = sequence -> [makeSequence(Null, Null) EXCEPT
                                !.kids = <<set, w.arena[curr].kids[1]>>,
                                !.type = w.arena[w.arena[curr].kids[1]].type]
          [] i = curr -> [w.arena[i] EXCEPT !.kids = <<sequence>>]
          [] i \in sets -> [w.arena[i] EXCEPT !.idx = newIndex]
          [] OTHER -> w.arena[i]
  IN  [w EXCEPT !.func = addVar(w.func, type),
                !.arena = [i \in 1..(Len(w.arena) + 3) |-> node(i)]]

\* the body of the loop of visitLoop for one index that is a final set in all
\* the entries: the sets write a new var, the body begins with a copy of it
splitLoopVar(w, curr, entries, index) ==
  LET type == getLocalType(w.func, index)
      newIndex == getNumLocals(w.func)
      get == Len(w.arena) + 1
      set == Len(w.arena) + 2
      sequence == Len(w.arena) + 3
      sets == { entries[e][index] : e \in 1..Len(entries) }
      node(i) ==
        CASE i = get -> makeGetLocal(newIndex, type)
          [] i = set -> [makeSetLocal(index, Null) EXCEPT !.kids = <<get>>, !.type = "none"]
          [] i = sequence -> [makeSequence(Null, Null) EXCEPT
                                !.kids = <<set, w.arena[curr].kids[1]>>,
                                !.type = w.arena[w.arena[curr].kids[1]].type]
          [] i = curr -> [w.arena[i] EXCEPT !.kids = <<sequence>>]
          [] i \in sets -> [w.arena[i] EXCEPT !.idx = newIndex]
          [] OTHER -> w.arena[i]
  IN  [w EXCEPT !.func = addVar(w.func, type),
                !.arena = [i \in 1..(Len(w.arena) + 3) |-> node(i)]]

RECURSIVE splitLoopVars(_, _, _, _)
\* the loop of visitLoop over entries[0], in the order it is iterated in
splitLoopVars(w, curr, entries, order) ==
  IF order = <<>> THEN w
  ELSE splitLoopVars(
         IF \A e \in 2..Len(entries) : Head(order) \in DOMAIN entries[e]
           THEN splitLoopVar(w, curr, entries, Head(order))
           ELSE w,
         curr, entries, Tail(order))

\* visitLoop(curr)
lvsVisitLoop(w, curr, order) ==
  LET erase(w2, name) == [w2 EXCEPT !.self.loopEntries = MapErase(@, name)]
      split(name, entries) ==
        erase(IF Len(entries) >= 2 THEN splitLoopVars(w, curr, entries, order) ELSE w, name)
      loop(name) == IF name = NullName THEN w ELSE split(name, entriesOf(w.self, name))
  IN  loop(w.arena[curr].name)

\* the keys of entries[0] of the loop, what visitLoop iterates over
loopVars(w, curr) ==
  LET keys(entries) == IF Len(entries) >= 2 THEN DOMAIN entries[1] ELSE {}
  IN  keys(entriesOf(w.self, w.arena[curr].name))

RECURSIVE eraseAll(_, _)
eraseAll(m, names) ==
  IF names = <<>> THEN m ELSE eraseAll(MapErase(m, Head(names)), Tail(names))

\* visitSwitch that forgets the default target
lvsVisitSwitchTargetsOnly(w, curr) ==
  [w EXCEPT !.self.loopEntries = eraseAll(@, w.arena[curr].targets)]

\* visitSwitch(curr)
lvsVisitSwitch(w, curr) ==
  [w EXCEPT !.self.loopEntries =
              eraseAll(@, Append(w.arena[curr].targets, w.arena[curr].name))]

\* visitGetLocal(curr)
lvsVisitGetLocal(w, curr) ==
  [w EXCEPT !.self.currFinalSets = MapErase(@, w.arena[curr].idx)]

\* visitSetLocal(curr)
lvsVisitSetLocal(w, curr) ==
  [w EXCEPT !.self.currFinalSets = MapPut(@, w.arena[curr].idx, curr)]

----------------------------------------------------------------------------
(* The functions the passes are run on *)

\* a module's functions are put in an arena, one after another
RECURSIVE allocateFunctions(_, _)
allocateFunctions(m, funcs) ==
  LET add(func, r) ==
        allocateFunctions([arena |-> r.arena,
                           functions |-> Append(m.functions, [func EXCEPT !.body = r.id])],
                          Tail(funcs))
  IN  IF funcs = <<>> THEN m ELSE add(Head(funcs), allocate(m.arena, Head(funcs).body))

\* the function as a tree again
functionOf(arena, func) == [func EXCEPT !.body = expressionOf(arena, func.body)]

NameX == <<120>>        \* "x"
NameLoop == <<108, 111, 111, 112>>  \* "loop"
NameOut == <<111, 117, 116>>        \* "out"

\* a loop of the passes: it has one name, the label of its top
NamedLoop(name, body) == makeLoop(name, NullName, body)

\* (drop value)
makeDrop(value) == [Null EXCEPT !.k = "Drop", !.kids = <<value>>]

\* (set_local index (i32.const n)), a set that is not a tee
SetConst(index, n) == [makeSetLocal(index, I32C(n)) EXCEPT !.type = "none"]

\* (if (i32.const c) (block <sets> <exit>)): an arm that ends in a branch
Arm(c, sets, exit) == makeIf(I32C(c), makeBlock(NullName, Append(sets, exit)), Null)

Continue == makeBreak(NameLoop, Null, Null)
ContinueIf == makeBreak(NameLoop, Null, I32C(1))
LeaveOut == makeBreak(NameOut, Null, Null)

\* a function of one or two i32 vars and no params
LoopFunction(name, nvars, list) ==
  makeFunction(name, NameF, <<>>, [i \in 1..nvars |-> "i32"], makeBlock(NullName, list))

\* test/passes/loop-var-splitting.wast, and functions like them
LVS_work ==
  LoopFunction(<<1>>, 1, <<SetConst(0, 0),
    NamedLoop(NameLoop, Arm(1, <<SetConst(0, 2)>>, Continue))>>)
LVS_two ==
  LoopFunction(<<2>>, 1, <<SetConst(0, 0),
    NamedLoop(NameLoop, makeBlock(NullName,
      <<Arm(1, <<SetConst(0, 2)>>, Continue), Arm(3, <<SetConst(0, 4)>>, Continue)>>))>>)
LVS_ignore ==
  LoopFunction(<<3>>, 1, <<SetConst(0, 0),
    makeBlock(NameOut, <<NamedLoop(NameLoop, makeBlock(NullName,
      <<Arm(1, <<SetConst(0, 2)>>, Continue), Arm(3, <<SetConst(0, 4)>>, LeaveOut)>>))>>)>>)
LVS_pair ==
  LoopFunction(<<4>>, 2, <<SetConst(0, 0), SetConst(1, 1),
    NamedLoop(NameLoop, Arm(1, <<SetConst(0, 2)>>, Continue))>>)
LVS_both ==
  LoopFunction(<<5>>, 2, <<SetConst(0, 0), SetConst(1, 1),
    NamedLoop(NameLoop, Arm(1, <<SetConst(1, 3), SetConst(0, 2)>>, Continue))>>)
LVS_not_in_all ==
  LoopFunction(<<6>>, 1, <<SetConst(0, 0),
    NamedLoop(NameLoop, makeBlock(NullName,
      <<Arm(1, <<SetConst(0, 2)>>, Continue), Arm(3, <<makeNop>>, Continue)>>))>>)
LVS_read_after ==
  LoopFunction(<<7>>, 1, <<SetConst(0, 0),
    NamedLoop(NameLoop,
      Arm(1, <<SetConst(0, 2), makeDrop(makeGetLocal(0, "i32"))>>, Continue))>>)
LVS_switch_ignorable ==
  LoopFunction(<<8>>, 1, <<SetConst(0, 0),
    makeBlock(NameOut, <<NamedLoop(NameLoop, makeBlock(NullName,
      <<Arm(1, <<SetConst(0, 2)>>, Continue),
        makeSwitch(<<NameOut>>, NameOut, Null, I32C(3))>>))>>)>>)
LVS_switch_blocks1 ==
  LoopFunction(<<9>>, 1, <<SetConst(0, 0),
    makeBlock(NameOut, <<NamedLoop(NameLoop, makeBlock(NullName,
      <<Arm(1, <<SetConst(0, 2)>>, Continue),
        makeSwitch(<<NameOut>>, NameLoop, Null, I32C(3))>>))>>)>>)
LVS_switch_blocks2 ==
  LoopFunction(<<10>>, 1, <<SetConst(0, 0),
    makeBlock(NameOut, <<NamedLoop(NameLoop, makeBlock(NullName,
      <<makeSwitch(<<NameLoop>>, NameOut, Null, I32C(3)),
        Arm(1, <<SetConst(0, 2)>>, Continue)>>))>>)>>)
LVS_br_if_blocks ==
  LoopFunction(<<11>>, 1, <<SetConst(0, 0),
    NamedLoop(NameLoop, makeBlock(NullName,
      <<Arm(1, <<SetConst(0, 2)>>, Continue), Arm(3, <<SetConst(0, 4)>>, ContinueIf)>>))>>)
LVS_br_if_first ==
  LoopFunction(<<12>>, 1, <<SetConst(0, 0),
    NamedLoop(NameLoop, makeBlock(NullName,
      <<Arm(3, <<SetConst(0, 4)>>, ContinueIf), Arm(1, <<SetConst(0, 2)>>, Continue)>>))>>)
\* the loop is the first thing of the function: nothing is set before it
LVS_loop_first ==
  LoopFunction(<<13>>, 1,
    <<NamedLoop(NameLoop, Arm(1, <<SetConst(0, 2)>>, Continue))>>)
\* a function that ends in a set
LVS_set_last ==
  LoopFunction(<<14>>, 1, <<makeDrop(makeGetLocal(0, "i32")), SetConst(0, 5)>>)

LoopVarFunctions ==
  <<LVS_work, LVS_two, LVS_ignore, LVS_pair, LVS_both, LVS_not_in_all, LVS_read_after,
    LVS_switch_ignorable, LVS_switch_blocks1, LVS_switch_blocks2, LVS_br_if_blocks,
    LVS_br_if_first, LVS_loop_first, LVS_set_last>>

\* the modules LoopVarSplitting is run on: one function, or two of them
LoopVarModules ==
  { allocateFunctions([arena |-> <<>>, functions |-> <<>>], funcs) :
      funcs \in { <<LoopVarFunctions[i]>> : i \in DOMAIN LoopVarFunctions }
                  \cup { <<LVS_set_last, LoopVarFunctions[i]>> : i \in DOMAIN LoopVarFunctions }
                  \cup { <<LVS_work, LVS_both>>, <<LVS_br_if_blocks, LVS_loop_first>> } }

----------------------------------------------------------------------------
(* The pass runner for a function-parallel pass: PassRunner hands the        *)
(* functions of the module to a pass instance one after another, and         *)
(* walkFunction walks each: setFunction, the task stack from the body down   *)
(* to empty, then the next function.  Beside the instance that is handed     *)
(* every function runs one that is made anew for each function.              *)

NoCurrentFunction == makeFunction(NullName, NullName, <<>>, <<>>, 0)

\* a pass instance before its first function
NewWalker(m, self) ==
  [arena |-> m.arena, functions |-> m.functions, func |-> NoCurrentFunction,
   stack |-> <<>>, self |-> self, ok |-> TRUE]

\* walkFunction(func), up to the first task
walkFunction(w, i) ==
  [w EXCEPT !.func = w.functions[i], !.stack = <<Task("scan", BodySlot)>>]

\* walkFunction(func), after the last task
finishFunction(w, i) == [w EXCEPT !.functions[i] = w.func]

\* the codec and the LEB bench do not run
CodecIdle ==
  /\ wasm = EmptyModule
  /\ optimize = FALSE
  /\ wpc = "idle"
  /\ pass = "writer"
  /\ fw = NoFunction
  /\ opcodeInfo = NewOpcodeInfo
  /\ o = <<>>
  /\ opcodeTable = NoTable
  /\ sections = <<>>
  /\ patches = <<>>
  /\ mappedLog = <<>>
  /\ brLog = <<>>
  /\ corruption = "none"
  /\ rd = IdleReader
  /\ lebType = "U32LEB"
  /\ lebValue = <<>>
  /\ lebOut = <<>>
  /\ lebRead = NoRead
  /\ lebPc = "idle"

\* the task the walker is at
AtTask(f) ==
  /\ ppc = "walk"
  /\ walker.ok
  /\ walker.stack # <<>>
  /\ Head(walker.stack).f = f

\* the visit of a node of one of the kinds
AtVisit(kinds) ==
  /\ AtTask("visit")
  /\ walker.arena[deref(walker, Head(walker.stack).currp)].k \in kinds

\* both instances run the task at the top of their stacks
RunTask(run(_, _)) ==
  /\ walker' = run(popTask(walker), Head(walker.stack).currp)
  /\ alone' = run(popTask(alone), Head(alone.stack).currp)
  /\ UNCHANGED <<lebVars, codecVars, countVars, refine, returns, program, current, finished, ppc>>

\* the pass runner takes the next function
WalkFunction(self) ==
  /\ ppc = "function"
  /\ current < Len(program.functions)
  /\ current' = current + 1
  /\ walker' = walkFunction(walker, current + 1)
  /\ alone' = walkFunction(NewWalker(program, self), current + 1)
  /\ ppc' = "walk"
  /\ UNCHANGED <<lebVars, codecVars, countVars, refine, returns, program, finished>>

\* the walk of the function is over
EndFunction ==
  /\ ppc = "walk"
  /\ walker.stack = <<>> \/ ~walker.ok
  /\ walker' = finishFunction(walker, current)
  /\ alone' = finishFunction(alone, current)
  /\ finished' = Append(finished, functionOf(alone.arena, alone.func))
  /\ ppc' = IF current = Len(program.functions) THEN "done" ELSE "function"
  /\ UNCHANGED <<lebVars, codecVars, countVars, refine, returns, program, current>>

\* a function of the module as the pass left it
result(i) == functionOf(walker.arena, walker.functions[i])

\* a function of the module as it was
original(i) == functionOf(program.arena, program.functions[i])

----------------------------------------------------------------------------
(* LoopVarSplitting run on a module *)

LoopVarInit ==
  /\ program \in LoopVarModules
  /\ current = 0
  /\ walker = NewWalker(program, NewLoopVarSplitting)
  /\ alone = NewWalker(program, NewLoopVarSplitting)
  /\ finished = <<>>
  /\ ppc = "function"
  /\ CountIdle
  /\ refine = <<>>
  /\ returns = <<>>
  /\ CodecIdle

LVSWalkFunction == WalkFunction(NewLoopVarSplitting)

LVSScan ==
  /\ AtTask("scan")
  /\ RunTask(LAMBDA w, currp : pushTasks(w, linearScan(w, currp)))

LVSNoteNonLinear ==
  /\ AtTask("noteNonLinear")
  /\ RunTask(LAMBDA w, currp : lvsNoteNonLinear(w, deref(w, currp)))

\* the order entries[0] is iterated in is the container's
LVSVisitLoop ==
  /\ AtVisit({"Loop"})
  /\ \E order \in Orders(loopVars(walker, deref(walker, Head(walker.stack).currp))
                           \cup loopVars(alone, deref(alone, Head(alone.stack).currp))) :
       RunTask(LAMBDA w, currp :
                 lvsVisitLoop(w, deref(w, currp),
                              SelectSeq(order, LAMBDA index : index \in loopVars(w, deref(w, currp)))))

LVSVisitSwitch ==
  /\ AtVisit({"Switch"})
  /\ RunTask(LAMBDA w, currp : lvsVisitSwitch(w, deref(w, currp)))

LVSVisitGetLocal ==
  /\ AtVisit({"GetLocal"})
  /\ RunTask(LAMBDA w, currp : lvsVisitGetLocal(w, deref(w, currp)))

LVSVisitSetLocal ==
  /\ AtVisit({"SetLocal"})
  /\ RunTask(LAMBDA w, currp : lvsVisitSetLocal(w, deref(w, currp)))

\* the visits LoopVarSplitting leaves to Visitor do nothing
LVSVisitOther ==
  /\ AtVisit({"Block", "If", "Break", "Const", "Drop", "Nop"})
  /\ RunTask(LAMBDA w, currp : w)

LVSEndFunction == EndFunction

LoopVarNext ==
  \/ LVSWalkFunction
  \/ LVSScan
  \/ LVSNoteNonLinear
  \/ LVSVisitLoop
  \/ LVSVisitSwitch
  \/ LVSVisitGetLocal
  \/ LVSVisitSetLocal
  \/ LVSVisitOther
  \/ LVSEndFunction

SpecLoopVar == LoopVarInit /\ [][LoopVarNext]_vars

----------------------------------------------------------------------------
\* C11: a function-parallel pass keeps no state from one function to the
\* next: when one instance has walked the functions of a module one after
\* another, each function is what an instance made for that function alone
\* leaves of it.
C11_NoStateKept ==
  ppc = "done" => \A i \in 1..Len(program.functions) : result(i) = finished[i]

----------------------------------------------------------------------------
(* What a function's text says of its loops, read off the tree *)

Front(s) == SubSeq(s, 1, Len(s) - 1)
Last(s) == s[Len(s)]
IsPrefix(q, p) == Len(q) <= Len(p) /\ SubSeq(p, 1, Len(q)) = q

\* the nodes of an expression
Nodes(tree) == { nodeAt(tree, p) : p \in Paths(tree) }

\* the expression has a node where execution does not go straight on
NonLinear(tree) ==
  \E n \in Nodes(tree) :
    \/ n.k \in {"If", "Loop", "Break", "Switch", "Return", "Unreachable"}
    \/ n.k = "Block" /\ n.name # NullName

\* the expression reads or writes the local
Touches(tree, L) == \E n \in Nodes(tree) : n.k \in {"GetLocal", "SetLocal"} /\ n.idx = L

NoPath == <<0>>

RECURSIVE FinalSetPath(_, _, _)
\* where the set of L is that is the last thing done to L on the straight
\* line of code that arrives at the node at p (NoPath if there is none)
FinalSetPath(T, p, L) ==
  LET q == Front(p)
      list == nodeAt(T, q).kids
      matter == { j \in 1..(Last(p) - 1) : Touches(list[j], L) \/ NonLinear(list[j]) }
      last == CHOOSE j \in matter : \A k \in matter : k <= j
  IN  IF p = <<>> \/ nodeAt(T, Front(p)).k # "Block" THEN NoPath
      ELSE IF matter = {} THEN FinalSetPath(T, q, L)
      ELSE IF list[last].k = "SetLocal" /\ list[last].idx = L THEN Append(q, last)
      ELSE NoPath

\* the named loops of the function
LoopsOf(T) == { p \in Paths(T) : nodeAt(T, p).k = "Loop" /\ nodeAt(T, p).name # NullName }

\* the unconditional branches to the top of the loop at lp
BackEdges(T, lp) ==
  { p \in Paths(T) : /\ IsPrefix(lp, p)
                     /\ nodeAt(T, p).k = "Break"
                     /\ nodeAt(T, p).name = nodeAt(T, lp).name
                     /\ nodeAt(T, p).kids[2].k = "Null" }

\* a br_if or a switch goes to the label
BranchedToConditionally(T, name) ==
  \E n \in Nodes(T) :
    \/ n.k = "Break" /\ n.name = name /\ n.kids[2].k # "Null"
    \/ n.k = "Switch" /\ (n.name = name \/ \E t \in 1..Len(n.targets) : n.targets[t] = name)

\* every back-edge of the loop ends with a set of L, and there is one
BackEdgesSet(T, lp, L) ==
  /\ BackEdges(T, lp) # {}
  /\ \A p \in BackEdges(T, lp) : FinalSetPath(T, p, L) # NoPath

RECURSIVE Copies(_, _)
\* the copies the body of a loop begins with: <<local, helper>> for each
\* sequence (set_local local (get_local helper)), helper a local that is new
Copies(body, numLocals) ==
  IF /\ body.k = "Block" /\ body.name = NullName /\ Len(body.kids) = 2
     /\ body.kids[1].k = "SetLocal"
     /\ body.kids[1].kids[1].k = "GetLocal"
     /\ body.kids[1].kids[1].idx >= numLocals
    THEN {<<body.kids[1].idx, body.kids[1].kids[1].idx>>} \cup Copies(body.kids[2], numLocals)
    ELSE {}

\* where a node of the loop's body is once n copies are put before the body
Moved(lp, p, n) ==
  IF IsPrefix(Append(lp, 1), p)
    THEN Append(lp, 1) \o [i \in 1..n |-> 2] \o SubSeq(p, Len(lp) + 2, Len(p))
    ELSE p

\* the loop at lp of function i was split for L: its body begins with a copy
\* of a helper of L's type into L, and the sets named write the helper
SplitFor(i, lp, L, sets) ==
  LET T == original(i).body
      R == result(i).body
      copies == Copies(nodeAt(R, lp).kids[1], getNumLocals(original(i)))
  IN  /\ nodeAt(R, lp).k = "Loop"
      /\ \E c \in copies :
           /\ c[1] = L
           /\ c[2] < getNumLocals(result(i))
           /\ getLocalType(result(i), c[2]) = getLocalType(original(i), L)
           /\ \A p \in sets :
                /\ nodeAt(R, Moved(lp, p, Cardinality(copies))).k = "SetLocal"
                /\ nodeAt(R, Moved(lp, p, Cardinality(copies))).idx = c[2]

\* the sets of L the back-edges of the loop end with
BackEdgeSets(T, lp, L) == { FinalSetPath(T, p, L) : p \in BackEdges(T, lp) }

\* the loops the claims are about: no br_if and no switch goes to their top
UnblockedLoops(i) ==
  { lp \in LoopsOf(original(i).body) :
      ~BranchedToConditionally(original(i).body, nodeAt(original(i).body, lp).name) }

Locals(i) == 0..(getNumLocals(original(i)) - 1)

----------------------------------------------------------------------------
----------------------------------------------------------------------------
\* C16: LoopVarSplitting leaves a function as it was when a br_if or a switch
\* goes to the top of its loop, wherever that branch is among the back-edges;
\* a switch that goes elsewhere does not stop the split.
C16_ConditionalBlocks ==
  ppc = "done" =>
    \A i \in 1..Len(program.functions) :
      /\ (LoopsOf(original(i).body) # {} /\ UnblockedLoops(i) = {}) => result(i) = original(i)
      /\ \A lp \in UnblockedLoops(i) : \A L \in Locals(i) :
           /\ \E n \in Nodes(original(i).body) : n.k = "Switch"
           /\ BackEdgesSet(original(i).body, lp, L)
           /\ FinalSetPath(original(i).body, lp, L) # NoPath
           => SplitFor(i, lp, L, BackEdgeSets(original(i).body, lp, L))

\* C16 witness: the pass is through a module with a loop a br_if goes to
\* before the back-edge, and through one with a switch that goes elsewhere
C16_Blocked ==
  /\ ppc = "done"
  /\ \/ original(Len(program.functions)) = LVS_br_if_first
     \/ original(Len(program.functions)) = LVS_switch_blocks2

----------------------------------------------------------------------------
(* ReorderFunctions: FunctionUseCounter on the pass runner's workers, and    *)
(* sortByUses (the version of the file that breaks ties by original index)   *)

NameA == <<97>>         \* "a"
NameB == <<98>>         \* "b"
NameC == <<99>>         \* "c"

\* the workers of the nested PassRunner
NumWorkers == 2

\* (func $name (call $target) ...), one call for each target
CallingFunction(name, targets) ==
  makeFunction(name, NameF, <<>>, <<>>,
               makeBlock(NullName, [i \in 1..Len(targets) |-> makeCall(targets[i], <<>>, "none")]
                                     \o <<makeNop>>))

\* a function that calls itself n times
SelfCalling(name, n) == CallingFunction(name, [i \in 1..n |-> name])

\* how many calls each of $a, $b, $c has: test/passes/reorder-functions.wast
\* (1, 2, 3 and all 1), and others with ties and without calls
CallCounts == { <<1, 2, 3>>, <<1, 1, 1>>, <<2, 2, 1>>, <<0, 3, 0>> }

\* the orders $a, $b, $c are declared in
Declarations == Orders({1, 2, 3})

\* a module of three functions that call themselves
SelfCallingModule(order, counts, start, exports, table) ==
  [functions |-> [i \in 1..3 |-> SelfCalling(<<NameA, NameB, NameC>>[order[i]], counts[order[i]])],
   start |-> start, exports |-> exports, table |-> table]

\* functions that call one another: $a calls $b twice and $c, $c calls $b
CrossCalling(order) ==
  [functions |-> [i \in 1..3 |->
                    <<CallingFunction(NameA, <<NameB, NameC, NameB>>),
                      CallingFunction(NameB, <<>>),
                      CallingFunction(NameC, <<NameB>>)>>[order[i]]],
   start |-> NameA, exports |-> <<>>, table |-> <<NameC>>]

ReorderModules ==
  { SelfCallingModule(order, counts, NullName, <<>>, <<>>) :
      order \in Declarations, counts \in CallCounts }
    \cup { SelfCallingModule(order, counts, NameA, <<NameB, NameB>>, <<NameC, NameA, NameC>>) :
             order \in Declarations, counts \in {<<1, 2, 3>>, <<1, 1, 1>>} }
    \cup { CrossCalling(order) : order \in Declarations }

\* the targets of the calls of a function, in the order PostWalker visits them
callsOf(func) ==
  LET nodes == allocate(<<>>, func.body).arena
  IN  [i \in 1..Len(SelectSeq(nodes, LAMBDA n : n.k = "Call")) |->
         SelectSeq(nodes, LAMBDA n : n.k = "Call")[i].name]

\* sortByUses that does not fill the map
prepareUsesNone(functions) == EmptyMap

\* sortByUses: uses[func->name] = 0 for every function
prepareUses(functions) ==
  [name \in { functions[i].name : i \in 1..Len(functions) } |-> 0]

\* (*uses)[name]++: operator[] puts the key in with 0 if it is not there, and
\* the increment of the std::atomic is one step
increment(map, name) == MapPut(map, name, MapAt(map, name) + 1)

RECURSIVE incrementAll(_, _)
incrementAll(map, names) ==
  IF names = <<>> THEN map ELSE incrementAll(increment(map, Head(names)), Tail(names))

\* sortByUses: the global uses, of start, the exports and the table
globalUses(map, m) ==
  incrementAll(map, (IF m.start # NullName THEN <<m.start>> ELSE <<>>) \o m.exports \o m.table)

\* originalIndex[a->name] = originalIndex.size() for each function in turn;
\* the build evaluates size() before the key is put in, or after
originalIndices(functions, sizeFirst) ==
  [name \in { functions[i].name : i \in 1..Len(functions) } |->
     (CHOOSE i \in 1..Len(functions) : functions[i].name = name) - (IF sizeFirst THEN 1 ELSE 0)]

\* a comparison that breaks ties by strcmp(a->name, b->name) > 0
usesBeforeByName(map, originalIndex, a, b) ==
  IF map[a.name] = map[b.name] THEN a.name[1] > b.name[1] ELSE map[a.name] > map[b.name]

\* the comparison of sortByUses: more uses first, then the lower original index
usesBefore(map, originalIndex, a, b) ==
  IF map[a.name] = map[b.name] THEN originalIndex[a.name] < originalIndex[b.name]
                               ELSE map[a.name] > map[b.name]

\* what std::sort may leave: the elements, none before one that compares
\* before it
Sorted(list, before(_, _)) ==
  { [i \in 1..Len(list) |-> list[p[i]]] : p \in
      { q \in Orders(1..Len(list)) :
          \A i, j \in 1..Len(list) : i < j => ~before(list[q[j]], list[q[i]]) } }

ReorderInit ==
  /\ program \in ReorderModules
  /\ current = 0
  /\ walker = [ok |-> TRUE]
  /\ alone = [ok |-> TRUE]
  /\ finished = <<>>
  /\ ppc = "prepare"
  /\ uses = <<>>
  /\ workers = [w \in 1..NumWorkers |-> [func |-> 0, calls |-> <<>>]]
  /\ visits = [i \in 1..Len(program.functions) |-> 0]
  /\ inserted = FALSE
  /\ refine = <<>>
  /\ returns = <<>>
  /\ CodecIdle

\* sortByUses up to the nested runner
PrepareUses ==
  /\ ppc = "prepare"
  /\ uses' = prepareUses(program.functions)
  /\ ppc' = "count"
  /\ UNCHANGED <<lebVars, codecVars, refine, returns, program, current, walker, alone, finished,
                 workers, visits, inserted>>

\* a worker that has no function takes the next one of the module
TakeFunction(w) ==
  /\ ppc = "count"
  /\ workers[w].func = 0
  /\ current < Len(program.functions)
  /\ current' = current + 1
  /\ workers' = [workers EXCEPT ![w] = [func |-> current + 1,
                                        calls |-> callsOf(program.functions[current + 1])]]
  /\ visits' = [visits EXCEPT ![current + 1] = @ + 1]
  /\ UNCHANGED <<lebVars, codecVars, refine, returns, program, walker, alone, finished, ppc, uses, inserted>>

\* FunctionUseCounter::visitCall on a worker
VisitCall(w) ==
  /\ ppc = "count"
  /\ workers[w].calls # <<>>
  /\ uses' = increment(uses, Head(workers[w].calls))
  /\ inserted' = (inserted \/ Head(workers[w].calls) \notin DOMAIN uses)
  /\ workers' = [workers EXCEPT ![w].calls = Tail(@)]
  /\ UNCHANGED <<lebVars, codecVars, refine, returns, program, current, walker, alone, finished, ppc, visits>>

\* the worker is through its function
EndWalk(w) ==
  /\ ppc = "count"
  /\ workers[w].func # 0
  /\ workers[w].calls = <<>>
  /\ workers' = [workers EXCEPT ![w].func = 0]
  /\ UNCHANGED <<lebVars, codecVars, refine, returns, program, current, walker, alone, finished, ppc,
                 uses, visits, inserted>>

\* sortByUses after the nested runner: the global uses, then the sort
SortByUses ==
  /\ ppc = "count"
  /\ current = Len(program.functions)
  /\ \A w \in 1..NumWorkers : workers[w].func = 0
  /\ uses' = globalUses(uses, program)
  /\ \E sizeFirst \in BOOLEAN :
       finished' \in Sorted(program.functions,
                            LAMBDA a, b : usesBefore(globalUses(uses, program),
                                                     originalIndices(program.functions, sizeFirst),
                                                     a, b))
  /\ ppc' = "done"
  /\ UNCHANGED <<lebVars, codecVars, refine, returns, program, current, walker, alone, workers, visits,
                 inserted>>

ReorderNext ==
  \/ PrepareUses
  \/ \E w \in 1..NumWorkers : TakeFunction(w)
  \/ \E w \in 1..NumWorkers : VisitCall(w)
  \/ \E w \in 1..NumWorkers : EndWalk(w)
  \/ SortByUses

SpecReorder == ReorderInit /\ [][ReorderNext]_vars

\* the calls of the module that go to the function
CallsTo(m, name) ==
  LET count(calls) == Cardinality({ i \in 1..Len(calls) : calls[i] = name })
      RECURSIVE sum(_)
      sum(i) == IF i = 0 THEN 0 ELSE sum(i - 1) + count(callsOf(m.functions[i]))
  IN  sum(Len(m.functions))

\* the uses of the function: the calls, the start, the exports, the table
UsesOf(m, name) ==
  CallsTo(m, name) + (IF m.start = name THEN 1 ELSE 0)
    + Cardinality({ i \in 1..Len(m.exports) : m.exports[i] = name })
    + Cardinality({ i \in 1..Len(m.table) : m.table[i] = name })

\* where the function was declared
DeclaredAt(m, name) == CHOOSE i \in 1..Len(m.functions) : m.functions[i].name = name

----------------------------------------------------------------------------
\* C12: with FunctionUseCounter on concurrent workers, every function is
\* walked exactly once, the count of a function when the workers are through
\* is the number of calls that go to it, and no worker puts a key in the
\* FunctionUseMap, which has every function with 0 before the workers start.
C12_CountsExact ==
  /\ ppc \in {"count", "done"} => ~inserted
  /\ ppc = "count" => \A i \in 1..Len(visits) : visits[i] <= 1
  /\ (/\ ppc = "count"
      /\ current = Len(program.functions)
      /\ \A w \in 1..NumWorkers : workers[w].func = 0)
       => /\ \A i \in 1..Len(visits) : visits[i] = 1
          /\ \A i \in 1..Len(program.functions) :
               uses[program.functions[i].name] = CallsTo(program, program.functions[i].name)

\* C12 witness: both workers are in a function that calls the same function,
\* each with a call to come, after one has counted a call
C12_BothCounting ==
  /\ ppc = "count"
  /\ \A w \in 1..NumWorkers : workers[w].func # 0 /\ workers[w].calls # <<>>
  /\ Head(workers[1].calls) = Head(workers[2].calls)
  /\ \E name \in DOMAIN uses : uses[name] > 0

----------------------------------------------------------------------------
\* C13: after sortByUses the functions are the module's functions in another
\* order, with more uses (calls, start, exports, table) before fewer, and
\* those with as many uses in the order they were declared in; three
\* functions that call themselves once, twice and three times end as c, b, a
\* whatever order they were declared in.
C13_SortedByUses ==
  ppc = "done" =>
    /\ \E p \in Orders(1..Len(program.functions)) :
         finished = [i \in 1..Len(finished) |-> program.functions[p[i]]]
    /\ Len(finished) = Len(program.functions)
    /\ \A i, j \in 1..Len(finished) : i < j =>
         \/ UsesOf(program, finished[i].name) > UsesOf(program, finished[j].name)
         \/ /\ UsesOf(program, finished[i].name) = UsesOf(program, finished[j].name)
            /\ DeclaredAt(program, finished[i].name) < DeclaredAt(program, finished[j].name)
    /\ (\E order \in Declarations :
          program = SelfCallingModule(order, <<1, 2, 3>>, NullName, <<>>, <<>>))
         => [i \in 1..3 |-> finished[i].name] = <<NameC, NameB, NameA>>

\* C13 witness: a module declared a, c, b with 1, 3 and 2 calls is sorted
C13_TakeTwo ==
  /\ ppc = "done"
  /\ program = SelfCallingModule(<<1, 3, 2>>, <<1, 2, 3>>, NullName, <<>>, <<>>)

----------------------------------------------------------------------------
(* ReorderFunctions::refineBySize (the version of the file that sorts by    *)
(* size).  The functions of a module are given as runs: a Run is count       *)
(* functions one after another that have the same size in the binary and     *)
(* names in the order strcmp puts them in, so that std::sort keeps a run, or  *)
(* the part of it that is in the range sorted, together and in order.  first  *)
(* is the index the first function of the run had before refineBySize.        *)

\* the bits of a value a byte of an LEB holds (wasm-binary.h)
BitsPerLEBByte == 7

Run(first, count, size) == [first |-> first, count |-> count, size |-> size]

RECURSIVE Total(_)
\* module->functions.size()
Total(runs) == IF runs = <<>> THEN 0 ELSE runs[1].count + Total(Tail(runs))

\* the index of the first function of the i-th run
IndexOf(runs, i) == Total(SubSeq(runs, 1, i - 1))

\* the runs, one cut in two where index at falls inside it
CutAt(runs, at) ==
  LET inside == { i \in 1..Len(runs) : IndexOf(runs, i) < at /\ at < IndexOf(runs, i + 1) }
      cut(i, n) == <<Run(runs[i].first, n, runs[i].size),
                     Run(runs[i].first + n, runs[i].count - n, runs[i].size)>>
      at1(i) == SubSeq(runs, 1, i - 1) \o cut(i, at - IndexOf(runs, i))
                  \o SubSeq(runs, i + 1, Len(runs))
  IN  IF inside = {} THEN runs ELSE at1(CHOOSE i \in inside : TRUE)

\* 1 << bits
ShiftLeft(bits) == 2 ^ bits

Min(a, b) == IF a < b THEN a ELSE b

\* the end of the range one turn of the loop of refineBySize sorts
rangeEnd(start, bits, n) == Min(start + ShiftLeft(bits), n)

\* the comparison of refineBySize: the larger first (the names decide among
\* functions of one size; runs of one size may end in either order)
sizeBefore(a, b) == a.size > b.size

\* one turn of the loop of refineBySize
refineTurn(r) ==
  LET bits == r.bits + BitsPerLEBByte
      n == Total(r.functions)
      end == rangeEnd(r.start, bits, n)
      runs == CutAt(r.functions, end)
      in == { i \in 1..Len(runs) : r.start <= IndexOf(runs, i) /\ IndexOf(runs, i) < end }
      lo == CHOOSE i \in in : \A j \in in : i <= j
      hi == CHOOSE i \in in : \A j \in in : j <= i
  IN  { [start |-> end, bits |-> bits,
         functions |-> SubSeq(runs, 1, lo - 1) \o sorted \o SubSeq(runs, hi + 1, Len(runs)),
         ranges |-> Append(r.ranges, <<r.start, end>>)] :
          sorted \in Sorted(SubSeq(runs, lo, hi), sizeBefore) }

\* the counts and the sizes of the runs of the modules refineBySize is given
RunCounts == {1, 127, 16256}
RunSizes == {1, 2, 3}
MaxRuns == 3

RECURSIVE WithFirst(_, _)
\* the runs with first filled in
WithFirst(runs, from) ==
  IF runs = <<>> THEN <<>>
  ELSE <<Run(from, runs[1].count, runs[1].size)>> \o WithFirst(Tail(runs), from + runs[1].count)

RefineModules ==
  { WithFirst(runs, 0) :
      runs \in UNION { [1..n -> [first : {0}, count : RunCounts, size : RunSizes]] :
                         n \in 1..MaxRuns } }

RefineInit ==
  /\ program = [arena |-> <<>>, functions |-> <<>>]
  /\ current = 0
  /\ walker = [ok |-> TRUE]
  /\ alone = [ok |-> TRUE]
  /\ finished = <<>>
  /\ ppc = "refine"
  /\ CountIdle
  /\ returns = <<>>
  /\ \E runs \in RefineModules :
       refine = [start |-> 0, bits |-> 0, functions |-> runs, ranges |-> <<>>]
  /\ CodecIdle

\* while (start < module->functions.size()): one turn
RefineBySize ==
  /\ ppc = "refine"
  /\ refine.start < Total(refine.functions)
  /\ refine' \in refineTurn(refine)
  /\ UNCHANGED <<lebVars, codecVars, walkVars, countVars, returns>>

\* the loop of refineBySize is left
RefineDone ==
  /\ ppc = "refine"
  /\ refine.start >= Total(refine.functions)
  /\ ppc' = "done"
  /\ UNCHANGED <<lebVars, codecVars, countVars, refine, returns, program, current, walker, alone,
                 finished>>

RefineNext == RefineBySize \/ RefineDone

SpecRefine == RefineInit /\ [][RefineNext]_vars

\* the bytes the LEB of a function index takes
LEBLength(index) ==
  CHOOSE k \in 1..5 : index < 2 ^ (BitsPerLEBByte * k)
                      /\ (k > 1 => index >= 2 ^ (BitsPerLEBByte * (k - 1)))

\* the functions of a run to look at: its ends, and those whose index, old or
\* new, is next to an index where the length of the LEB changes
EdgesOf(first, index, count) ==
  ({0, count - 1}
     \cup { 2 ^ (BitsPerLEBByte * b) - x - d : b \in 1..2, x \in {first, index}, d \in {0, 1} })
    \cap (0..(count - 1))

----------------------------------------------------------------------------
\* C14: refineBySize never moves a function to an index whose LEB has another
\* length: it sorts only within [0, 2^7), [2^7, 2^14), ...
C14_WithinLEBLength ==
  \A i \in 1..Len(refine.functions) :
    \A k \in EdgesOf(refine.functions[i].first, IndexOf(refine.functions, i),
                     refine.functions[i].count) :
      LEBLength(refine.functions[i].first + k)
        = LEBLength(IndexOf(refine.functions, i) + k)

----------------------------------------------------------------------------
(* DropReturnValues.  Its input is code from before drop and tee: a          *)
(* set_local and a store have the type of their value.  Block::finalize,     *)
(* If::finalize, Loop::finalize (wasm.h) and ExpressionAnalyzer::isResultUsed *)
(* (ast_utils.h) are the collaborators the specification describes.          *)

isConcreteWasmType(type) == type \notin {"none", "unreachable"}

\* mergeTypes: unreachable is ignored, none or two types make none
RECURSIVE mergeTypes(_, _)
mergeTypes(type, types) ==
  IF types = <<>> THEN type
  ELSE mergeTypes(CASE type = "none" -> "none"
                    [] Head(types) = "none" -> "none"
                    [] Head(types) = "unreachable" -> type
                    [] type = "unreachable" -> Head(types)
                    [] type # Head(types) -> "none"
                    [] OTHER -> type,
                  Tail(types))

RECURSIVE postOrder(_, _)
\* the nodes of an expression of the arena in the order they are evaluated
\* in: the children in their order, then the node
postOrder(a, id) ==
  IF id = 0 THEN <<>>
  ELSE Flatten([i \in 1..Len(a[id].kids) |-> postOrder(a, a[id].kids[i])]) \o <<id>>

\* the types the breaks to the label in the expression send
breakTypes(a, id, name) ==
  LET breaks == SelectSeq(postOrder(a, id),
                          LAMBDA n : a[n].k = "Break" /\ a[n].name = name)
  IN  [i \in 1..Len(breaks) |->
         IF a[breaks[i]].kids[1] = 0 THEN "none" ELSE a[a[breaks[i]].kids[1]].type]

\* the type finalize() gives a Block, an If or a Loop
finalizedType(a, id) ==
  LET node == a[id]
      typeOf(kid) == IF kid = 0 THEN "none" ELSE a[kid].type
      last == IF node.kids = <<>> THEN "none" ELSE typeOf(node.kids[Len(node.kids)])
  IN  CASE node.k = "Block" /\ node.name = NullName -> last
        [] node.k = "Block" -> mergeTypes("unreachable", Append(breakTypes(a, id, node.name), last))
        [] node.k = "If" /\ node.kids[3] = 0 -> "none"
        [] node.k = "If" ->
             CASE typeOf(node.kids[2]) = typeOf(node.kids[3]) -> typeOf(node.kids[2])
               [] isConcreteWasmType(typeOf(node.kids[2]))
                    /\ typeOf(node.kids[3]) = "unreachable" -> typeOf(node.kids[2])
               [] isConcreteWasmType(typeOf(node.kids[3]))
                    /\ typeOf(node.kids[2]) = "unreachable" -> typeOf(node.kids[3])
               [] OTHER -> "none"
        [] node.k = "Loop" -> typeOf(node.kids[1])
        [] OTHER -> node.type

\* curr->finalize()
finalize(w, id) == [w EXCEPT !.arena[id].type = finalizedType(w.arena, id)]

\* ExpressionAnalyzer::isResultUsed(stack, func): from the parent of the
\* expression down the stack, a block passes the value of its last element
\* on and drops the others, an if uses its condition and passes the value of
\* its arms on if it has both, a drop uses nothing, any other parent uses the
\* value; at the bottom the function does if it has a result
isResultUsed(w, stack) ==
  LET verdict(i) ==
        LET curr == w.arena[stack[i]]
            above == stack[i + 1]
        IN  CASE curr.k = "Block" ->
                   IF \E j \in 1..(Len(curr.kids) - 1) : curr.kids[j] = above
                     THEN "unused" ELSE "on"
              [] curr.k = "If" ->
                   IF above = curr.kids[1] THEN "used"
                   ELSE IF curr.kids[3] = 0 THEN "unused" ELSE "on"
              [] curr.k = "Drop" -> "unused"
              [] OTHER -> "used"
      decided == { i \in 1..(Len(stack) - 1) : verdict(i) # "on" }
  IN  IF decided = {} THEN w.func.result # "none"
      ELSE verdict(CHOOSE i \in decided : \A j \in decided : j <= i) = "used"

\* replaceCurrent(makeDrop(curr))
replaceWithDrop(w, currp) ==
  assign(allocNode(w, [makeDrop(Null) EXCEPT !.kids = <<deref(w, currp)>>]),
         currp, Len(w.arena) + 1)

\* maybeDrop(curr)
maybeDrop(w, currp) ==
  IF /\ isConcreteWasmType(w.arena[deref(w, currp)].type)
     /\ ~isResultUsed(w, w.self.expressionStack)
    THEN replaceWithDrop(w, currp)
    ELSE w

\* a visit that finalizes and leaves the value as it is
drvVisitControlFinalizeOnly(w, currp) == finalize(w, deref(w, currp))

\* visitBlock, visitIf, visitLoop
drvVisitControl(w, currp) == maybeDrop(finalize(w, deref(w, currp)), currp)

\* visitBreak: the check, made for the block or loop at stack[i]
drvCheck(w, currp, i) ==
  LET curr == deref(w, currp)
      drop == Len(w.arena) + 1
      sequence == Len(w.arena) + 2
      node(n) ==
        CASE n = drop -> [makeDrop(Null) EXCEPT !.kids = <<w.arena[curr].kids[1]>>]
          [] n = sequence -> [makeSequence(Null, Null) EXCEPT !.kids = <<drop, curr>>,
                                                              !.type = w.arena[curr].type]
          [] n = curr -> [w.arena[curr] EXCEPT !.kids[1] = 0]
          [] OTHER -> w.arena[n]
  IN  IF ~isResultUsed(w, w.self.expressionStack)
        THEN assign([w EXCEPT !.arena = [n \in 1..(Len(w.arena) + 2) |-> node(n)]],
                    currp, sequence)
        ELSE w

\* visitBreak
drvVisitBreak(w, currp) ==
  LET curr == w.arena[deref(w, currp)]
      stack == w.self.expressionStack
      hits == { i \in 1..Len(stack) :
                  \/ w.arena[stack[i]].k = "Block" /\ w.arena[stack[i]].name = curr.name
                  \/ w.arena[stack[i]].k = "Loop"
                       /\ curr.name \in {w.arena[stack[i]].name, w.arena[stack[i]].name2} }
      top == CHOOSE i \in hits : \A j \in hits : j <= i
  IN  IF curr.kids[1] = 0 \/ hits = {} THEN w
      ELSE IF w.arena[stack[top]].k = "Loop" /\ w.arena[stack[top]].name2 = curr.name THEN w
      ELSE drvCheck(w, currp, top)

\* visitSetLocal
drvVisitSetLocal(w, currp) ==
  IF w.arena[deref(w, currp)].type # "none" /\ ~isResultUsed(w, w.self.expressionStack)
    THEN [w EXCEPT !.arena[deref(w, currp)].type = "none"]
    ELSE w

\* visitStore
drvVisitStore(w, currp) ==
  LET curr == deref(w, currp)
      value == w.arena[curr].kids[2]
      type == w.arena[value].type
      index == getNumLocals(w.func)
      set == Len(w.arena) + 1
      inner == Len(w.arena) + 2
      get == Len(w.arena) + 3
      outer == Len(w.arena) + 4
      operand == Len(w.arena) + 5
      node(n) ==
        CASE n = set -> [makeSetLocal(index, Null) EXCEPT !.kids = <<value>>, !.type = "none"]
          [] n = inner -> [makeSequence(Null, Null) EXCEPT !.kids = <<set, curr>>]
          [] n = get -> makeGetLocal(index, type)
          [] n = outer -> [makeSequence(Null, Null) EXCEPT !.kids = <<inner, get>>,
                                                           !.type = type]
          [] n = operand -> makeGetLocal(index, type)
          [] n = curr -> [w.arena[curr] EXCEPT !.type = "none", !.kids[2] = operand]
          [] OTHER -> w.arena[n]
  IN  IF isResultUsed(w, w.self.expressionStack)
        THEN assign([w EXCEPT !.func = addVar(w.func, type),
                              !.arena = [n \in 1..(Len(w.arena) + 5) |-> node(n)]],
                    currp, outer)
        ELSE [w EXCEPT !.arena[curr].type = "none"]

\* visitPre
drvVisitPre(w, currp) == [w EXCEPT !.self.expressionStack = Append(@, deref(w, currp))]

\* visitPost
drvVisitPost(w, currp) == [w EXCEPT !.self.expressionStack = Front(@)]

\* scan
drvScan(w, currp) ==
  pushTasks(w, <<Task("visitPre", currp)>> \o postScan(w, currp) \o <<Task("visitPost", currp)>>)

NewDropReturnValues == [expressionStack |-> <<>>]

\* a function with a result type
DropFunction(name, res, params, varTypes, body) ==
  [name |-> name, type |-> NameF, params |-> params, vars |-> varTypes, body |-> body,
   result |-> res]

NameP == <<112>>        \* "p"
NameV == <<118>>        \* "v"

GetX == makeGetLocal(0, "i32")
CallP == makeCall(NameP, <<>>, "i32")
CallV == makeCall(NameV, <<>>, "i32")
\* (br $name value), of type unreachable
BreakWith(name, value) == [makeBreak(name, value, Null) EXCEPT !.type = "unreachable"]
\* (i32.store (call $p) (call $v)): the address and the value have effects
StoreCalls == makeStore(4, 0, 4, CallP, CallV, "i32")
\* a block with the type of its last element
TypedBlock(name, list) == [makeBlock(name, list) EXCEPT !.type = list[Len(list)].type]
TypedIf(condition, ifTrue, ifFalse) ==
  [makeIf(condition, ifTrue, ifFalse) EXCEPT
     !.type = IF ifFalse.k = "Null" THEN "none" ELSE ifTrue.type]

\* functions in the dialect before drop and tee
DRV_unused_values ==
  DropFunction(<<1>>, "none", <<"i32">>, <<>>,
    TypedBlock(NullName, <<I32C(1), makeSetLocal(0, I32C(2)), GetX, makeNop>>))
DRV_break_inside_if ==
  DropFunction(<<2>>, "i32", <<"i32">>, <<>>,
    TypedBlock(LabelB, <<TypedIf(GetX, BreakWith(LabelB, I32C(1)), Null), I32C(2)>>))
DRV_unused_loop ==
  DropFunction(<<3>>, "none", <<"i32">>, <<>>,
    TypedBlock(NullName,
      <<[makeLoop(NullName, NullName, I32C(1)) EXCEPT !.type = "i32"], makeNop>>))
DRV_store_used ==
  DropFunction(<<4>>, "none", <<"i32">>, <<>>,
    TypedBlock(NullName, <<makeSetLocal(0, StoreCalls), makeNop>>))
DRV_store_returned ==
  DropFunction(<<5>>, "i32", <<"i32">>, <<>>, TypedBlock(NullName, <<makeNop, StoreCalls>>))
DRV_store_unused ==
  DropFunction(<<6>>, "none", <<"i32">>, <<>>, TypedBlock(NullName, <<StoreCalls, makeNop>>))
DRV_if_unused ==
  DropFunction(<<7>>, "none", <<"i32">>, <<>>,
    TypedBlock(NullName, <<TypedIf(GetX, I32C(1), I32C(2)), TypedIf(GetX, I32C(3), Null)>>))
DRV_if_used ==
  DropFunction(<<8>>, "i32", <<"i32">>, <<>>, TypedIf(GetX, I32C(1), I32C(2)))
DRV_break_last ==
  DropFunction(<<9>>, "none", <<"i32">>, <<>>,
    TypedBlock(NullName,
      <<[makeBlock(LabelB, <<makeNop, BreakWith(LabelB, I32C(1))>>) EXCEPT !.type = "i32"],
        makeNop>>))
DRV_break_used ==
  DropFunction(<<10>>, "i32", <<"i32">>, <<>>,
    [makeBlock(LabelB, <<makeNop, BreakWith(LabelB, I32C(1))>>) EXCEPT !.type = "i32"])
DRV_operators ==
  DropFunction(<<11>>, "none", <<"i32">>, <<>>,
    TypedBlock(NullName,
      <<makeBinary("add", GetX, I32C(1), "i32"),
        makeUnary("eqz", makeLoad(4, FALSE, 0, 4, GetX, "i32"), "i32"),
        makeSelect(I32C(1), I32C(2), GetX),
        CallV,
        makeSetLocal(0, makeSetLocal(0, I32C(5))),
        [makeReturn(Null) EXCEPT !.type = "unreachable"]>>))
DRV_tee_returned ==
  DropFunction(<<12>>, "i32", <<"i32">>, <<>>,
    TypedBlock(NullName, <<I32C(7), makeSetLocal(0, I32C(2))>>))

\* the break is the first element of a block whose value is returned
DRV_break_first_used ==
  DropFunction(<<13>>, "i32", <<"i32">>, <<>>,
    TypedBlock(LabelB, <<BreakWith(LabelB, I32C(1)), I32C(2)>>))
\* the break is the first element of a block whose value nothing uses
DRV_break_first_unused ==
  DropFunction(<<14>>, "none", <<"i32">>, <<>>,
    TypedBlock(NullName,
      <<TypedBlock(LabelB, <<BreakWith(LabelB, I32C(1)), I32C(2)>>), makeNop>>))
\* the break is in both arms of an if whose value is the block's
DRV_break_in_arms ==
  DropFunction(<<15>>, "i32", <<"i32">>, <<>>,
    TypedBlock(LabelB,
      <<[makeIf(GetX, BreakWith(LabelB, I32C(1)), BreakWith(LabelB, I32C(2)))
           EXCEPT !.type = "unreachable"]>>))

DropFunctions ==
  <<DRV_unused_values, DRV_break_inside_if, DRV_unused_loop, DRV_store_used,
    DRV_store_returned, DRV_store_unused, DRV_if_unused, DRV_if_used, DRV_break_last,
    DRV_break_used, DRV_operators, DRV_tee_returned, DRV_break_first_used,
    DRV_break_first_unused, DRV_break_in_arms>>

DropModules ==
  { allocateFunctions([arena |-> <<>>, functions |-> <<>>], <<DropFunctions[i]>>) :
      i \in DOMAIN DropFunctions }

DropInit ==
  /\ program \in DropModules
  /\ current = 0
  /\ walker = NewWalker(program, NewDropReturnValues)
  /\ alone = NewWalker(program, NewDropReturnValues)
  /\ finished = <<>>
  /\ ppc = "function"
  /\ CountIdle
  /\ refine = <<>>
  /\ returns = <<>>
  /\ CodecIdle

DRVWalkFunction == WalkFunction(NewDropReturnValues)

DRVScan ==
  /\ AtTask("scan")
  /\ RunTask(drvScan)

DRVVisitPre ==
  /\ AtTask("visitPre")
  /\ RunTask(drvVisitPre)

DRVVisitPost ==
  /\ AtTask("visitPost")
  /\ RunTask(drvVisitPost)

DRVVisitControl ==
  /\ AtVisit({"Block", "If", "Loop"})
  /\ RunTask(drvVisitControl)

DRVVisitBreak ==
  /\ AtVisit({"Break"})
  /\ RunTask(drvVisitBreak)

\* visitCall, visitGetLocal, visitLoad, visitConst, visitUnary, visitBinary,
\* visitSelect
DRVVisitValue ==
  /\ AtVisit({"Call", "GetLocal", "Load", "Const", "Unary", "Binary", "Select"})
  /\ RunTask(maybeDrop)

DRVVisitSetLocal ==
  /\ AtVisit({"SetLocal"})
  /\ RunTask(drvVisitSetLocal)

DRVVisitStore ==
  /\ AtVisit({"Store"})
  /\ RunTask(drvVisitStore)

\* the visits DropReturnValues leaves to Visitor do nothing
DRVVisitOther ==
  /\ AtVisit({"Nop", "Return", "Drop", "Switch", "Unreachable"})
  /\ RunTask(LAMBDA w, currp : w)

DRVEndFunction == EndFunction

DropNext ==
  \/ DRVWalkFunction
  \/ DRVScan
  \/ DRVVisitPre
  \/ DRVVisitPost
  \/ DRVVisitControl
  \/ DRVVisitBreak
  \/ DRVVisitValue
  \/ DRVVisitSetLocal
  \/ DRVVisitStore
  \/ DRVVisitOther
  \/ DRVEndFunction

SpecDrop == DropInit /\ [][DropNext]_vars

RECURSIVE UsedAt(_, _, _)
\* the value of the node at p of the tree is used, going by the tree alone
UsedAt(T, p, func) ==
  LET q == Front(p)
      parent == nodeAt(T, Front(p))
  IN  IF p = <<>> THEN func.result # "none"
      ELSE CASE parent.k = "Block" ->
                  IF Last(p) < Len(parent.kids) THEN FALSE ELSE UsedAt(T, q, func)
             [] parent.k = "If" ->
                  IF Last(p) = 1 THEN TRUE
                  ELSE IF parent.kids[3].k = "Null" THEN FALSE ELSE UsedAt(T, q, func)
             [] parent.k = "Drop" -> FALSE
             [] OTHER -> TRUE

----------------------------------------------------------------------------
\* C19: after DropReturnValues every expression of a concrete type whose
\* value its parent context does not use is the direct child of a Drop.
C19_UnusedDropped ==
  ppc = "done" =>
    \A i \in 1..Len(program.functions) : \A p \in Paths(result(i).body) :
      (/\ isConcreteWasmType(nodeAt(result(i).body, p).type)
       /\ ~UsedAt(result(i).body, p, result(i)))
        => p # <<>> /\ nodeAt(result(i).body, Front(p)).k = "Drop"

\* C19 witness: the pass is through a function and has put a loop, the arm of
\* an if or a value of a block in a Drop
C19_Dropped ==
  /\ ppc = "done"
  /\ \E p \in Paths(result(1).body) :
       /\ nodeAt(result(1).body, p).k = "Drop"
       /\ nodeAt(result(1).body, p).kids[1].k \in {"Loop", "Const", "Binary"}
       /\ result(1) # original(1)

----------------------------------------------------------------------------
\* the stores of the module that the pass spilled: their value operand now
\* reads a local the function did not have
Spilled(i) ==
  { s \in 1..Len(program.arena) :
      /\ program.arena[s].k = "Store"
      /\ walker.arena[walker.arena[s].kids[2]].k = "GetLocal"
      /\ walker.arena[walker.arena[s].kids[2]].idx >= getNumLocals(program.functions[i]) }

\* where the node is in the order the function's body is evaluated in
EvaluatedAt(a, body, id) == { n \in 1..Len(postOrder(a, body)) : postOrder(a, body)[n] = id }

\* C20: when DropReturnValues spills a store whose result is used, the code
\* evaluates the store's address and then its value, as before, each once,
\* and what used the store's result reads the local the value was put in.
C20_OrderKept ==
  ppc = "done" =>
    \A i \in 1..Len(program.functions) : \A s \in Spilled(i) :
      LET ptr == EvaluatedAt(walker.arena, walker.functions[i].body, program.arena[s].kids[1])
          value == EvaluatedAt(walker.arena, walker.functions[i].body, program.arena[s].kids[2])
      IN  /\ Cardinality(ptr) = 1
          /\ Cardinality(value) = 1
          /\ \A x \in ptr : \A y \in value : x < y

----------------------------------------------------------------------------
(* SimplifyLocals *)

\* Index: an unsigned number of 32 bits, as its four bytes, the lowest first
ToIndex(n) == [k \in 1..4 |-> (n \div Pow2(8 * (k - 1))) % 256]

\* std::numeric_limits<Index>::max()
IndexMax == <<255, 255, 255, 255>>

\* a + b of two Index values, wrapping around
indexAdd(a, b) ==
  LET carry[k \in 0..4] == IF k = 0 THEN 0 ELSE (a[k] + b[k] + carry[k - 1]) \div 256
  IN  [k \in 1..4 |-> (a[k] + b[k] + carry[k - 1]) % 256]

\* the product of two Index values in full, eight bytes
wideMul(a, b) ==
  LET term(k, i) == IF k - i + 2 \in 1..4 THEN a[i] * b[k - i + 2] ELSE 0
      column(k) == term(k, 1) + term(k, 2) + term(k, 3) + term(k, 4)
      carry[k \in 0..8] == IF k = 0 THEN 0 ELSE (column(k - 1) + carry[k - 1]) \div 256
  IN  [k \in 1..8 |-> (column(k - 1) + carry[k - 1]) % 256]

\* a * b of two Index values, wrapping around
indexMul(a, b) == SubSeq(wideMul(a, b), 1, 4)

\* a < max / b: a + 1 times b is max at most (b is not 0)
lessThanMaxOver(a, b) ==
  /\ a # IndexMax
  /\ b # ToIndex(0)
  /\ SubSeq(wideMul(indexAdd(a, ToIndex(1)), b), 5, 8) = <<0, 0, 0, 0>>

\* a <= b of two Index values
indexLeq(a, b) ==
  \/ a = b
  \/ \E k \in 1..4 : a[k] < b[k] /\ \A j \in (k + 1)..4 : a[j] = b[j]

\* Fragment: the rational number top / bottom
Fragment(top, bottom) == [top |-> ToIndex(top), bottom |-> ToIndex(bottom)]

\* Fragment::add, the assertion: the bottoms are equal or their product is
\* below the largest Index
addAsserts(f, other) ==
  f.bottom = other.bottom \/ lessThanMaxOver(f.bottom, other.bottom)

\* Fragment::add that does not normalize
fragmentAddPlain(f, other) ==
  IF f.bottom = other.bottom
    THEN [f EXCEPT !.top = indexAdd(f.top, other.top)]
    ELSE [top |-> indexAdd(indexMul(f.top, other.bottom), indexMul(other.top, f.bottom)),
          bottom |-> indexMul(f.bottom, other.bottom)]

\* Fragment::add
fragmentAdd(f, other) ==
  LET sum == IF f.bottom = other.bottom
               THEN [f EXCEPT !.top = indexAdd(f.top, other.top)]
               ELSE [top |-> indexAdd(indexMul(f.top, other.bottom),
                                      indexMul(other.top, f.bottom)),
                     bottom |-> indexMul(f.bottom, other.bottom)]
  IN  IF sum.top = sum.bottom THEN Fragment(1, 1) ELSE sum

\* Fragment::split
fragmentSplit(f, factor) == [f EXCEPT !.bottom = indexMul(@, ToIndex(factor))]

\* Fragment::one
one(f) == f.top = f.bottom

\* EffectAnalyzer: branches, calls, memory reads and writes, local reads and
\* writes, traps
NoEffects ==
  [branches |-> FALSE, calls |-> FALSE, localsRead |-> {}, localsWritten |-> {},
   readsMemory |-> FALSE, writesMemory |-> FALSE, traps |-> FALSE]

\* EffectAnalyzer::visit of one node
effectsOfNode(node) ==
  CASE node.k \in {"Break", "Switch", "Return"} -> [NoEffects EXCEPT !.branches = TRUE]
    [] node.k = "Unreachable" -> [NoEffects EXCEPT !.branches = TRUE, !.traps = TRUE]
    [] node.k = "Call" -> [NoEffects EXCEPT !.calls = TRUE]
    [] node.k = "GetLocal" -> [NoEffects EXCEPT !.localsRead = {node.idx}]
    [] node.k = "SetLocal" -> [NoEffects EXCEPT !.localsWritten = {node.idx}]
    [] node.k = "Load" -> [NoEffects EXCEPT !.readsMemory = TRUE, !.traps = TRUE]
    [] node.k = "Store" -> [NoEffects EXCEPT !.writesMemory = TRUE, !.traps = TRUE]
    [] OTHER -> NoEffects

\* EffectAnalyzer::walk: the effects of every node of the expression
effectsOf(a, id) ==
  LET nodes == { a[postOrder(a, id)[n]] : n \in 1..Len(postOrder(a, id)) }
      any(field) == \E node \in nodes : effectsOfNode(node)[field]
      all(field) == UNION { effectsOfNode(node)[field] : node \in nodes }
  IN  [branches |-> any("branches"), calls |-> any("calls"),
       localsRead |-> all("localsRead"), localsWritten |-> all("localsWritten"),
       readsMemory |-> any("readsMemory"), writesMemory |-> any("writesMemory"),
       traps |-> any("traps")]

\* EffectAnalyzer::checkPre: control flow that happens before the children
checkPre(node) ==
  IF node.k = "Loop" THEN [NoEffects EXCEPT !.branches = TRUE] ELSE NoEffects

\* EffectAnalyzer::checkPost
checkPost(node) == effectsOfNode(node)

accessesMemory(e) == e.calls \/ e.readsMemory \/ e.writesMemory

hasAnything(e) == e # NoEffects

\* EffectAnalyzer::invalidates: a branch against any effect, a write against
\* a read or a write of the same category, a trap against a trap
invalidates(e, other) ==
  \/ e.branches /\ hasAnything(other)
  \/ other.branches /\ hasAnything(e)
  \/ (e.writesMemory \/ e.calls) /\ accessesMemory(other)
  \/ accessesMemory(e) /\ (other.writesMemory \/ other.calls)
  \/ e.localsWritten \cap (other.localsWritten \cup other.localsRead) # {}
  \/ e.localsRead \cap other.localsWritten # {}
  \/ e.traps /\ other.traps

\* SinkableInfo(item)
SinkableInfo(w, item) ==
  [item |-> item, effects |-> effectsOf(w.arena, deref(w, item)), frag |-> Fragment(1, 1)]

\* Sinkables::split
splitSinkables(s, factor) ==
  [i \in DOMAIN s |-> [s[i] EXCEPT !.frag = fragmentSplit(@, factor)]]

\* Sinkables::merge: what is not in both, or is another set in the other, is
\* erased; the fragments of the rest are added
mergeSinkables(s, other) ==
  [i \in { j \in DOMAIN s : j \in DOMAIN other /\ s[j].item = other[j].item } |->
     [s[i] EXCEPT !.frag = fragmentAdd(@, other[i].frag)]]

\* Sinkables::merge, the assertions of the adds it makes
mergeAsserts(s, other) ==
  \A i \in DOMAIN s :
    i \in DOMAIN other /\ s[i].item = other[i].item => addAsserts(s[i].frag, other[i].frag)

\* sinkables.merge(other)
merged(w, other) ==
  [w EXCEPT !.self.sinkables = mergeSinkables(@, other),
            !.ok = @ /\ mergeAsserts(w.self.sinkables, other)]

\* a SimplifyLocals before its first function; enlarged is history: the blocks
\* and ifs that walk has enlarged, in order
NewSimplifyLocals ==
  [sinkables |-> EmptyMap, blockBreaks |-> EmptyMap, unoptimizableBlocks |-> {},
   ifStack |-> <<>>, anotherCycle |-> FALSE, expressionStack |-> <<>>,
   blocksToEnlarge |-> <<>>, ifsToEnlarge |-> <<>>, numGetLocals |-> <<>>,
   enlarged |-> <<>>]

\* blockBreaks[name]
breaksOf(self, name) ==
  IF name \in DOMAIN self.blockBreaks THEN self.blockBreaks[name] ELSE <<>>

\* ExpressionManipulator::nop
nop(w, id) == [w EXCEPT !.arena[id] = makeNop]

\* the first index of a map in the order of its keys that is in the set
FirstOf(indices) == CHOOSE i \in indices : \A j \in indices : i <= j

\* doNoteNonLinear
doNoteNonLinear(w, currp) ==
  LET curr == w.arena[deref(w, currp)]
      cleared(self) == [w EXCEPT !.self = [self EXCEPT !.sinkables = EmptyMap]]
  IN  CASE curr.k = "Break" ->
             IF curr.kids[1] # 0
               THEN cleared([w.self EXCEPT !.unoptimizableBlocks = @ \cup {curr.name}])
               ELSE cleared([w.self EXCEPT !.blockBreaks =
                               MapPut(@, curr.name,
                                      Append(breaksOf(w.self, curr.name),
                                             [br |-> deref(w, currp),
                                              sinkables |-> w.self.sinkables]))])
        [] curr.k \in {"Block", "If"} -> w
        [] curr.k = "Switch" ->
             cleared([w.self EXCEPT !.unoptimizableBlocks =
                        @ \cup { curr.targets[i] : i \in DOMAIN curr.targets }
                          \cup {curr.name}])
        [] OTHER -> cleared(w.self)

\* doNoteIfCondition
doNoteIfCondition(w, currp) ==
  LET halves == splitSinkables(w.self.sinkables, 2)
  IN  [w EXCEPT !.self.sinkables = halves, !.self.ifStack = Append(@, halves)]

\* doNoteIfTrue
doNoteIfTrue(w, currp) ==
  LET forIfFalse == Last(w.self.ifStack)
  IN  IF w.arena[deref(w, currp)].kids[3] # 0
        THEN [w EXCEPT !.self.ifStack = Append(Front(@), w.self.sinkables),
                       !.self.sinkables = forIfFalse]
        ELSE [merged(w, forIfFalse) EXCEPT !.self.ifStack = Front(@)]

\* a block with room for a value: its last element is a nop
hasRoom(w, id) ==
  /\ id # 0
  /\ w.arena[id].k = "Block"
  /\ w.arena[id].kids # <<>>
  /\ w.arena[Last(w.arena[id].kids)].k = "Nop"

\* optimizeIfReturn: a set of the same local is whole in both arms; the arms
\* get the values as their last elements and the if goes into a set
optimizeIfReturn(w, currp) ==
  LET iff == deref(w, currp)
      ifTrue == Last(w.self.ifStack)
      ifFalse == w.self.sinkables
      shared == { i \in DOMAIN ifTrue :
                    /\ one(ifTrue[i].frag)
                    /\ i \in DOMAIN ifFalse
                    /\ one(ifFalse[i].frag) }
      arm(v, block, item) ==
        IF v.arena[deref(v, item)].k # "SetLocal" THEN [v EXCEPT !.ok = FALSE]
        ELSE Bound(nop([v EXCEPT !.arena[block].kids[Len(v.arena[block].kids)] =
                                   v.arena[deref(v, item)].kids[1]],
                       deref(v, item)),
                   LAMBDA x : finalize(x, block))
      wrapped(v, sharedIndex) ==
        [assign(allocNode(v, [makeSetLocal(sharedIndex, Null) EXCEPT
                                !.kids = <<iff>>, !.type = v.arena[iff].type]),
                currp, Len(v.arena) + 1)
           EXCEPT !.self.anotherCycle = TRUE,
                  !.ok = /\ v.ok
                         /\ v.arena[w.arena[iff].kids[2]].type # "none"
                         /\ v.arena[iff].type # "none"]
      rewritten(sharedIndex) ==
        Bound(Bound(Bound(arm(w, w.arena[iff].kids[2], ifTrue[sharedIndex].item),
                          LAMBDA x : arm(x, w.arena[iff].kids[3], ifFalse[sharedIndex].item)),
                    LAMBDA x : finalize(x, iff)),
              LAMBDA x : wrapped(x, sharedIndex))
  IN  IF Last(w.self.expressionStack) # iff THEN [w EXCEPT !.ok = FALSE]
      ELSE IF isResultUsed(w, w.self.expressionStack) \/ shared = {} THEN w
      ELSE IF ~hasRoom(w, w.arena[iff].kids[2]) \/ ~hasRoom(w, w.arena[iff].kids[3])
        THEN [w EXCEPT !.self.ifsToEnlarge = Append(@, iff)]
      ELSE rewritten(FirstOf(shared))

\* doNoteIfFalse
doNoteIfFalse(w, currp) ==
  LET done(v) == [merged(v, Last(v.self.ifStack)) EXCEPT !.self.ifStack = Front(@)]
  IN  Bound(optimizeIfReturn(w, currp), done)

\* optimizeBlockReturn: a set of the same local is whole at every break of
\* the block and at its end; the values go to the breaks and to the end of
\* the block, and the block goes into a set
optimizeBlockReturn(w, currp) ==
  LET block == deref(w, currp)
      curr == w.arena[block]
      breaks == breaksOf(w.self, curr.name)
      taken == [w EXCEPT !.self.blockBreaks = MapErase(@, curr.name)]
      sinkables == w.self.sinkables
      inAll(index) ==
        \A j \in DOMAIN breaks :
          /\ index \in DOMAIN breaks[j].sinkables
          /\ one(breaks[j].sinkables[index].frag)
      shared == { i \in DOMAIN sinkables : one(sinkables[i].frag) /\ inAll(i) }
      rewritten(sharedIndex) ==
        LET blockSet == deref(w, sinkables[sharedIndex].item)
            breakSet(j) == deref(w, breaks[j].sinkables[sharedIndex].item)
            sets == {blockSet} \cup { breakSet(j) : j \in DOMAIN breaks }
            value(set) == w.arena[set].kids[1]
            moved ==
              [i \in DOMAIN w.arena |->
                 CASE i = block ->
                        [curr EXCEPT !.kids[Len(curr.kids)] = value(blockSet),
                                     !.type = w.arena[value(blockSet)].type]
                   [] i \in sets -> makeNop
                   [] \E j \in DOMAIN breaks : breaks[j].br = i ->
                        [w.arena[i] EXCEPT !.kids[1] =
                           value(breakSet(CHOOSE j \in DOMAIN breaks : breaks[j].br = i))]
                   [] OTHER -> w.arena[i]]
            newSetLocal ==
              [makeSetLocal(sharedIndex, Null) EXCEPT
                 !.kids = <<block>>, !.type = w.arena[value(blockSet)].type]
        IN  IF \/ \E set \in sets : w.arena[set].k # "SetLocal"
               \/ Cardinality(sets) # Len(breaks) + 1
               \/ \E j \in DOMAIN breaks : w.arena[breaks[j].br].kids[1] # 0
              THEN [taken EXCEPT !.ok = FALSE]
              ELSE [assign([taken EXCEPT !.arena = Append(moved, newSetLocal)],
                           currp, Len(w.arena) + 1)
                      EXCEPT !.self.sinkables = EmptyMap, !.self.anotherCycle = TRUE]
  IN  IF curr.name = NullName \/ curr.name \in w.self.unoptimizableBlocks THEN w
      ELSE IF breaks = <<>> THEN taken
      ELSE IF w.arena[breaks[1].br].kids[1] # 0 THEN [taken EXCEPT !.ok = FALSE]
      ELSE IF shared = {} THEN taken
      ELSE IF ~hasRoom(w, block)
        THEN [taken EXCEPT !.self.blocksToEnlarge = Append(@, block)]
      ELSE rewritten(FirstOf(shared))

\* what is known about the block is dropped and the block return is not tried
slVisitBlockCleanupOnly(w, currp) ==
  LET curr == w.arena[deref(w, currp)]
  IN  IF curr.name = NullName THEN w
      ELSE [w EXCEPT !.self.sinkables = EmptyMap,
                     !.self.unoptimizableBlocks = @ \ {curr.name},
                     !.self.blockBreaks = MapErase(@, curr.name)]

\* visitBlock: the block return, then what is known about the block is
\* dropped, and the sinkables too if there is more than one path to its end
slVisitBlock(w, currp) ==
  LET curr == w.arena[deref(w, currp)]
      hasBreaks == curr.name # NullName /\ breaksOf(w.self, curr.name) # <<>>
      unoptimizable == curr.name \in w.self.unoptimizableBlocks
      cleaned(v) ==
        IF curr.name = NullName THEN v
        ELSE [v EXCEPT
                !.self.sinkables = IF unoptimizable \/ hasBreaks THEN EmptyMap ELSE @,
                !.self.unoptimizableBlocks = @ \ {curr.name},
                !.self.blockBreaks = IF unoptimizable /\ ~hasBreaks
                                       THEN MapPut(@, curr.name, <<>>)
                                       ELSE MapErase(@, curr.name)]
  IN  cleaned(optimizeBlockReturn(w, currp))

\* visitGetLocal without the test of the fragment: any sinkable set of the local
\* takes the place of the get
slVisitGetLocalAnyFragment(w, currp) ==
  LET curr == deref(w, currp)
      index == w.arena[curr].idx
      sunk(item) ==
        [nop(assign(assign(w, currp, deref(w, item)), item, curr), curr)
           EXCEPT !.self.sinkables = MapErase(@, index), !.self.anotherCycle = TRUE]
  IN  IF index \in DOMAIN w.self.sinkables
        THEN sunk(w.self.sinkables[index].item)
        ELSE w

\* visitGetLocal: a whole sinkable set of the local takes the place of the
\* get, and the get, made a nop, the place of the set
slVisitGetLocal(w, currp) ==
  LET curr == deref(w, currp)
      index == w.arena[curr].idx
      sunk(item) ==
        [nop(assign(assign(w, currp, deref(w, item)), item, curr), curr)
           EXCEPT !.self.sinkables = MapErase(@, index), !.self.anotherCycle = TRUE]
  IN  IF index \in DOMAIN w.self.sinkables /\ one(w.self.sinkables[index].frag)
        THEN sunk(w.self.sinkables[index].item)
        ELSE w

\* checkInvalidations
checkInvalidations(w, effects) ==
  [w EXCEPT !.self.sinkables =
     [i \in { j \in DOMAIN w.self.sinkables :
                ~invalidates(effects, w.self.sinkables[j].effects) } |->
        w.self.sinkables[i]]]

\* visitPre
slVisitPre(w, currp) ==
  LET curr == deref(w, currp)
      checked == IF hasAnything(checkPre(w.arena[curr]))
                   THEN checkInvalidations(w, checkPre(w.arena[curr]))
                   ELSE w
  IN  [checked EXCEPT !.self.expressionStack = Append(@, curr)]

\* visitPost: an earlier whole sinkable set of the local a set writes is a
\* dead store; the effects of the node; a set whose result is not used is
\* sinkable from here on
slVisitPost(w, currp) ==
  LET set == deref(w, currp)
      isSet == w.arena[set].k = "SetLocal"
      index == w.arena[set].idx
      dead(v) ==
        IF isSet /\ index \in DOMAIN v.self.sinkables /\ one(v.self.sinkables[index].frag)
          THEN IF v.arena[deref(v, v.self.sinkables[index].item)].k # "SetLocal"
                 THEN [v EXCEPT !.ok = FALSE]
                 ELSE [assign(v, v.self.sinkables[index].item,
                              v.arena[deref(v, v.self.sinkables[index].item)].kids[1])
                         EXCEPT !.self.sinkables = MapErase(@, index),
                                !.self.anotherCycle = TRUE]
          ELSE v
      checked(v) ==
        IF hasAnything(checkPost(v.arena[deref(v, currp)]))
          THEN checkInvalidations(v, checkPost(v.arena[deref(v, currp)]))
          ELSE v
      replaced(v) == [v EXCEPT !.self.expressionStack = Append(Front(@), set)]
      sinkable(v) ==
        IF isResultUsed(v, v.self.expressionStack) THEN v
        ELSE IF index \in DOMAIN v.self.sinkables THEN [v EXCEPT !.ok = FALSE]
        ELSE [v EXCEPT !.self.sinkables = MapPut(@, index, SinkableInfo(v, currp))]
      popped(v) == [v EXCEPT !.self.expressionStack = Front(@)]
  IN  IF isSet THEN Bound(Bound(Bound(Bound(dead(w), checked), replaced), sinkable), popped)
      ELSE Bound(checked(w), popped)

\* scan: visitPre, the tasks of the node, visitPost; the tasks of an if are
\* its condition, doNoteIfCondition, its arms, each with its note
slScan(w, currp) ==
  LET id == deref(w, currp)
      forIf ==
        <<Task("scan", Slot(id, 1)), Task("noteIfCondition", currp),
          Task("scan", Slot(id, 2)), Task("noteIfTrue", currp)>>
          \o (IF w.arena[id].kids[3] # 0
                THEN <<Task("scan", Slot(id, 3)), Task("noteIfFalse", currp)>>
                ELSE <<>>)
  IN  pushTasks(w, <<Task("visitPre", currp)>>
                     \o (IF w.arena[id].k = "If" THEN forIf ELSE linearScan(w, currp))
                     \o <<Task("visitPost", currp)>>)

\* block->list.push_back(allocator.alloc<Nop>())
pushNop(w, block) ==
  [allocNode(w, makeNop) EXCEPT !.arena[block].kids = Append(@, Len(w.arena) + 1)]

RECURSIVE enlargeBlocks(_, _)
\* walk: the blocks that were marked get a nop at their end
enlargeBlocks(w, blocks) ==
  IF blocks = <<>> THEN w
  ELSE enlargeBlocks([pushNop(w, Head(blocks))
                        EXCEPT !.self.anotherCycle = TRUE,
                               !.self.enlarged = Append(@, Head(blocks))],
                     Tail(blocks))

\* walk: an arm of a marked if is made a block that ends with a nop
enlargeArm(w, slot) ==
  LET any == deref(w, slot)
      blockified ==
        IF any # 0 /\ w.arena[any].k = "Block" THEN w
        ELSE assign(allocNode(w, [makeBlock(NullName, IF any = 0 THEN <<>> ELSE <<any>>)
                                    EXCEPT !.type = IF any = 0 THEN "none"
                                                    ELSE w.arena[any].type]),
                    slot, Len(w.arena) + 1)
      ended(v) == IF hasRoom(v, deref(v, slot)) THEN v ELSE pushNop(v, deref(v, slot))
  IN  ended(blockified)

\* walk, without the loop over the marked ifs: another cycle is asked for and
\* no arm changes
enlargeIfsUnchanged(w, ifs) ==
  IF ifs = <<>> THEN w
  ELSE [w EXCEPT !.self.anotherCycle = TRUE, !.self.enlarged = @ \o ifs]

RECURSIVE enlargeIfs(_, _)
\* walk: the ifs that were marked
enlargeIfs(w, ifs) ==
  IF ifs = <<>> THEN w
  ELSE enlargeIfs([enlargeArm(enlargeArm(w, Slot(Head(ifs), 2)), Slot(Head(ifs), 3))
                     EXCEPT !.self.anotherCycle = TRUE,
                            !.self.enlarged = Append(@, Head(ifs))],
                  Tail(ifs))

\* walk, after the main operation of a cycle: the marked blocks and ifs are
\* enlarged and what the cycle knew is cleared
endCycle(w) ==
  LET cleared(v) ==
        [v EXCEPT !.self.blocksToEnlarge = <<>>, !.self.ifsToEnlarge = <<>>,
                  !.self.sinkables = EmptyMap, !.self.blockBreaks = EmptyMap,
                  !.self.unoptimizableBlocks = {}]
  IN  cleared(enlargeIfs(enlargeBlocks(w, w.self.blocksToEnlarge), w.self.ifsToEnlarge))

\* walk, at the top of a cycle
startCycle(w) ==
  [w EXCEPT !.self.anotherCycle = FALSE, !.stack = <<Task("scan", BodySlot)>>]

\* GetLocalCounter: the number of get_locals of each local
countGetLocals(w) ==
  LET nodes == postOrder(w.arena, w.func.body)
  IN  [w EXCEPT !.self.numGetLocals =
         [i \in 1..getNumLocals(w.func) |->
            Cardinality({ n \in 1..Len(nodes) :
                            /\ w.arena[nodes[n]].k = "GetLocal"
                            /\ w.arena[nodes[n]].idx = i - 1 })]]

RECURSIVE remaining(_, _, _)
\* what SetLocalRemover leaves where a node was: a set of a local without
\* get_locals leaves its value
remaining(a, numGetLocals, id) ==
  IF id # 0 /\ a[id].k = "SetLocal" /\ numGetLocals[a[id].idx + 1] = 0
    THEN remaining(a, numGetLocals, a[id].kids[1])
    ELSE id

\* the sets are counted and all of them stay
removeSetLocalsNone(w) == w

\* SetLocalRemover
removeSetLocals(w) ==
  [w EXCEPT
     !.arena = [i \in DOMAIN w.arena |->
                  [w.arena[i] EXCEPT !.kids =
                     [j \in DOMAIN w.arena[i].kids |->
                        remaining(w.arena, w.self.numGetLocals, w.arena[i].kids[j])]]],
     !.func.body = remaining(w.arena, w.self.numGetLocals, w.func.body)]

----------------------------------------------------------------------------
(* Functions for SimplifyLocals: local 0 is a param, locals 1 and 2 are vars *)

SimplifyFunction(name, list) ==
  DropFunction(name, "none", <<"i32">>, <<"i32", "i32">>, makeBlock(NullName, list))

SetTo(index, n) == makeSetLocal(index, I32C(n))
Use(index) == makeDrop(makeGetLocal(index, "i32"))
LeaveIf == makeBreak(NameOut, Null, makeGetLocal(0, "i32"))
Out(list) == makeBlock(NameOut, list)

\* the get follows the set
SL_sink == SimplifyFunction(NameA, <<SetTo(1, 1), Use(1)>>)

\* nothing reads the local
SL_unread == SimplifyFunction(NameA, <<SetTo(1, 1), makeNop>>)

\* the only get comes before the set
SL_read_before == SimplifyFunction(NameA, <<Use(1), SetTo(1, 1)>>)

\* the first store is dead
SL_dead_store == SimplifyFunction(NameA, <<SetTo(1, 1), SetTo(1, 2), Use(1)>>)

\* a get in an arm of an if, and one after it
SL_if_fragment ==
  SimplifyFunction(NameA, <<SetTo(1, 1), makeIf(makeGetLocal(0, "i32"), Use(1), Null),
                            Use(1)>>)

\* a get after an if that does not touch the local
SL_if_whole ==
  SimplifyFunction(NameA, <<SetTo(1, 1), makeIf(makeGetLocal(0, "i32"), makeNop, Null),
                            Use(1)>>)

\* both arms of an if set the local, with room for the values
SL_if_return ==
  SimplifyFunction(NameA,
    <<makeIf(makeGetLocal(0, "i32"),
             makeBlock(NullName, <<SetTo(1, 1), makeNop>>),
             makeBlock(NullName, <<SetTo(1, 2), makeNop>>)),
      Use(1), Use(1)>>)

\* both arms of an if set the local, without room for the values
SL_if_enlarge ==
  SimplifyFunction(NameA,
    <<makeIf(makeGetLocal(0, "i32"), SetTo(1, 1), SetTo(1, 2)), SetTo(2, 5), Use(1)>>)

\* a set that goes into a loop
SL_loop ==
  SimplifyFunction(NameA, <<SetTo(1, 1), makeLoop(NullName, NameLoop, Use(1))>>)

\* scenario 6: the break and the end of $out each come after a set of local 1;
\* the only get of the local follows the block
SL_block_return ==
  SimplifyFunction(NameA,
    <<Out(<<Arm(1, <<SetTo(1, 1)>>, LeaveOut), SetTo(1, 2), makeNop>>), Use(1)>>)

\* the same block, and nothing reads the local
SL_block_unread ==
  SimplifyFunction(NameA,
    <<Out(<<Arm(1, <<SetTo(1, 1)>>, LeaveOut), SetTo(1, 2), makeNop>>), makeNop>>)

\* the same, and a set of a local nobody reads between the block and the get
SL_block_kept ==
  SimplifyFunction(NameA,
    <<Out(<<Arm(1, <<SetTo(1, 1)>>, LeaveOut), SetTo(1, 2), makeNop>>),
      SetTo(2, 5), Use(1)>>)

\* the same, without room at the end of the block
SL_block_enlarge ==
  SimplifyFunction(NameA,
    <<Out(<<Arm(1, <<SetTo(1, 1)>>, LeaveOut), SetTo(1, 2)>>), SetTo(2, 5), Use(1)>>)

\* two locals are set before the break and before the end
SL_block_two ==
  SimplifyFunction(NameA,
    <<Out(<<Arm(1, <<SetTo(1, 1), SetTo(2, 1)>>, LeaveOut), SetTo(1, 2), SetTo(2, 2),
            makeNop>>),
      SetTo(0, 5), Use(1), Use(2)>>)

\* the break is conditional, and the local is read where it was not taken
SL_block_br_if ==
  SimplifyFunction(NameA,
    <<Out(<<SetTo(1, 1), LeaveIf, Use(1), SetTo(1, 2), makeNop>>), SetTo(2, 5), Use(1)>>)

\* the break is conditional, and the local is read after the block only
SL_block_br_if_unread ==
  SimplifyFunction(NameA,
    <<Out(<<SetTo(1, 1), LeaveIf, SetTo(1, 2), makeNop>>), SetTo(2, 5), Use(1)>>)

\* a break without a set before it
SL_block_partial ==
  SimplifyFunction(NameA,
    <<Out(<<Arm(1, <<SetTo(1, 1)>>, LeaveOut), Arm(2, <<>>, LeaveOut), SetTo(1, 2),
            makeNop>>),
      Use(1)>>)

\* a switch targets the block
SL_block_switch ==
  SimplifyFunction(NameA,
    <<Out(<<Arm(1, <<SetTo(1, 1)>>, LeaveOut),
            Arm(2, <<SetTo(1, 3)>>, makeSwitch(<<NameOut>>, NameOut, Null, I32C(0))),
            SetTo(1, 2), makeNop>>),
      SetTo(2, 5), Use(1)>>)

\* the breaks of the block carry values
SL_block_valued ==
  SimplifyFunction(NameA,
    <<makeDrop(TypedBlock(NameOut, <<Arm(1, <<SetTo(1, 1)>>, BreakWith(NameOut, I32C(7))),
                                     SetTo(1, 2), I32C(8)>>)),
      SetTo(2, 5), Use(1)>>)

\* ifs without an else, one in the arm of the other, to the depth
RECURSIVE Nest(_)
Nest(depth) ==
  IF depth = 0 THEN makeNop ELSE makeIf(makeGetLocal(0, "i32"), Nest(depth - 1), Null)

\* a set, seven ifs in each other, and the get
SL_if_deep7 == SimplifyFunction(NameA, <<SetTo(1, 1), Nest(7), Use(1)>>)

\* a set, eight ifs in each other, and the get
SL_if_deep8 == SimplifyFunction(NameA, <<SetTo(1, 1), Nest(8), Use(1)>>)

\* the get is in the arm of an if inside the arm of another if, after an if
\* that has ended
SL_if_arm_get ==
  SimplifyFunction(NameA,
    <<SetTo(1, 1),
      makeIf(makeGetLocal(0, "i32"),
             makeBlock(NullName, <<makeIf(makeGetLocal(0, "i32"), makeNop, makeNop),
                                   makeIf(makeGetLocal(0, "i32"), makeNop, Use(1))>>),
             makeNop),
      Use(1)>>)

\* both arms of an if set two locals, and the first of them is set again
\* after the if
SL_if_two_locals ==
  SimplifyFunction(NameA,
    <<makeIf(makeGetLocal(0, "i32"),
             makeBlock(NullName, <<SetTo(1, 1), SetTo(2, 3)>>),
             makeBlock(NullName, <<SetTo(1, 2), SetTo(2, 4)>>)),
      SetTo(1, 5), Use(1), Use(2)>>)

SimplifyFunctions ==
  <<SL_sink, SL_unread, SL_read_before, SL_dead_store, SL_if_fragment, SL_if_whole,
    SL_if_return, SL_if_enlarge, SL_loop, SL_block_return, SL_block_unread, SL_block_kept,
    SL_block_enlarge, SL_block_two, SL_block_br_if, SL_block_br_if_unread,
    SL_block_partial, SL_block_switch,
    SL_block_valued, SL_if_deep7, SL_if_deep8, SL_if_arm_get, SL_if_two_locals>>

SimplifyModules ==
  { allocateFunctions([arena |-> <<>>, functions |-> <<>>], <<SimplifyFunctions[i]>>) :
      i \in DOMAIN SimplifyFunctions }

----------------------------------------------------------------------------
(* SimplifyLocals on a module *)

\* a switch, or a break with a value, of the expression goes to the name
Targeted(tree, name) ==
  \E n \in Nodes(tree) :
    \/ /\ n.k = "Switch"
       /\ n.name = name \/ \E i \in DOMAIN n.targets : n.targets[i] = name
    \/ n.k = "Break" /\ n.name = name /\ n.kids[1].k # "Null"

\* what the visit of a named block with breaks finds, for each local that has
\* a whole sinkable set at each of the breaks noted for the block and at its
\* end, the lowest local first: the sets and their values, whether the block
\* ends with a nop, and whether a switch or a break with a value goes to it
blockReturns(w, currp) ==
  LET block == deref(w, currp)
      curr == w.arena[block]
      breaks == breaksOf(w.self, curr.name)
      whole(m, index) == index \in DOMAIN m /\ one(m[index].frag)
      held == { index \in DOMAIN w.self.sinkables :
                  /\ whole(w.self.sinkables, index)
                  /\ \A j \in DOMAIN breaks : whole(breaks[j].sinkables, index) }
      rank(index) == Cardinality({ other \in held : other <= index })
      found(m, index) ==
        [set |-> deref(w, m[index].item), value |-> w.arena[deref(w, m[index].item)].kids[1]]
      entry(index) ==
        [block |-> block, index |-> index, end |-> found(w.self.sinkables, index),
         breaks |-> [j \in DOMAIN breaks |->
                       [br |-> breaks[j].br, at |-> found(breaks[j].sinkables, index)]],
         room |-> hasRoom(w, block),
         blocked |-> Targeted(expressionOf(w.arena, block), curr.name)]
  IN  IF curr.name = NullName \/ breaks = <<>> THEN <<>>
      ELSE [k \in 1..Cardinality(held) |-> entry(CHOOSE index \in held : rank(index) = k)]

SimplifyInit ==
  /\ program \in SimplifyModules
  /\ current = 0
  /\ walker = NewWalker(program, NewSimplifyLocals)
  /\ alone = NewWalker(program, NewSimplifyLocals)
  /\ finished = <<>>
  /\ ppc = "function"
  /\ CountIdle
  /\ refine = <<>>
  /\ returns = <<>>
  /\ CodecIdle

SLWalkFunction == WalkFunction(NewSimplifyLocals)

SLScan ==
  /\ AtTask("scan")
  /\ RunTask(slScan)

SLVisitPre ==
  /\ AtTask("visitPre")
  /\ RunTask(slVisitPre)

SLVisitPost ==
  /\ AtTask("visitPost")
  /\ RunTask(slVisitPost)

SLNoteNonLinear ==
  /\ AtTask("noteNonLinear")
  /\ RunTask(doNoteNonLinear)

SLNoteIfCondition ==
  /\ AtTask("noteIfCondition")
  /\ RunTask(doNoteIfCondition)

SLNoteIfTrue ==
  /\ AtTask("noteIfTrue")
  /\ RunTask(doNoteIfTrue)

SLNoteIfFalse ==
  /\ AtTask("noteIfFalse")
  /\ RunTask(doNoteIfFalse)

\* visitBlock; what the visit found goes to the history
SLVisitBlock ==
  /\ AtVisit({"Block"})
  /\ walker' = slVisitBlock(popTask(walker), Head(walker.stack).currp)
  /\ alone' = slVisitBlock(popTask(alone), Head(alone.stack).currp)
  /\ returns' = returns \o blockReturns(walker, Head(walker.stack).currp)
  /\ UNCHANGED <<lebVars, codecVars, countVars, refine, program, current, finished, ppc>>

SLVisitGetLocal ==
  /\ AtVisit({"GetLocal"})
  /\ RunTask(slVisitGetLocal)

\* the visits SimplifyLocals leaves to Visitor do nothing
SLVisitOther ==
  /\ AtVisit({"Nop", "Loop", "Break", "Switch", "Call", "SetLocal", "Load", "Store",
              "Const", "Unary", "Binary", "Select", "Return", "Drop", "Unreachable"})
  /\ RunTask(LAMBDA w, currp : w)

\* walk: the main operation of a cycle is over; another cycle starts, or the
\* get_locals are counted next
SLEndCycle ==
  /\ ppc = "walk"
  /\ walker.ok
  /\ walker.stack = <<>>
  /\ LET next(w) == IF endCycle(w).self.anotherCycle THEN startCycle(endCycle(w))
                    ELSE endCycle(w)
     IN  /\ walker' = next(walker)
         /\ alone' = next(alone)
         /\ ppc' = IF endCycle(walker).self.anotherCycle THEN "walk" ELSE "count"
  /\ UNCHANGED <<lebVars, codecVars, countVars, refine, returns, program, current, finished>>

\* walk: counter.walk(root)
SLCountGetLocals ==
  /\ ppc = "count"
  /\ walker' = countGetLocals(walker)
  /\ alone' = countGetLocals(alone)
  /\ ppc' = "remove"
  /\ UNCHANGED <<lebVars, codecVars, countVars, refine, returns, program, current, finished>>

\* walk: remover.walk(root)
SLRemoveSetLocals ==
  /\ ppc = "remove"
  /\ walker' = removeSetLocals(walker)
  /\ alone' = removeSetLocals(alone)
  /\ ppc' = "walked"
  /\ UNCHANGED <<lebVars, codecVars, countVars, refine, returns, program, current, finished>>

\* the walk of the function is over
SLEndFunction ==
  /\ ppc = "walked" \/ (ppc = "walk" /\ ~walker.ok)
  /\ walker' = finishFunction(walker, current)
  /\ alone' = finishFunction(alone, current)
  /\ finished' = Append(finished, functionOf(alone.arena, alone.func))
  /\ ppc' = IF current = Len(program.functions) THEN "done" ELSE "function"
  /\ UNCHANGED <<lebVars, codecVars, countVars, refine, returns, program, current>>

SimplifyNext ==
  \/ SLWalkFunction
  \/ SLScan
  \/ SLVisitPre
  \/ SLVisitPost
  \/ SLNoteNonLinear
  \/ SLNoteIfCondition
  \/ SLNoteIfTrue
  \/ SLNoteIfFalse
  \/ SLVisitBlock
  \/ SLVisitGetLocal
  \/ SLVisitOther
  \/ SLEndCycle
  \/ SLCountGetLocals
  \/ SLRemoveSetLocals
  \/ SLEndFunction

SpecSimplify == SimplifyInit /\ [][SimplifyNext]_vars

\* the pass goes on while it has a step to take
SpecSimplifyLive == SpecSimplify /\ WF_vars(SimplifyNext)

----------------------------------------------------------------------------
(* SimplifyLocals: the sets that are left *)

\* the places of the sets and of the gets of a local in an expression
SetsOf(T, L) == { p \in Paths(T) : nodeAt(T, p).k = "SetLocal" /\ nodeAt(T, p).idx = L }
GetsOf(T, L) == { p \in Paths(T) : nodeAt(T, p).k = "GetLocal" /\ nodeAt(T, p).idx = L }

\* the local is assigned once in the expression, and no get of it comes
\* after the set
AssignedOnceUnreadAfter(T, L) ==
  /\ Cardinality(SetsOf(T, L)) = 1
  /\ \A s \in SetsOf(T, L) : \A g \in GetsOf(T, L) : ~MadeBefore(s, g)

\* C17 as stated: after SimplifyLocals no local that was assigned exactly once,
\* with no read after that assignment, is the index of a SetLocal
C17_AsStated ==
  ppc = "done" =>
    \A i \in 1..Len(program.functions) : \A L \in Locals(i) :
      AssignedOnceUnreadAfter(original(i).body, L) => SetsOf(result(i).body, L) = {}

\* C17: after SimplifyLocals every local that is the index of a SetLocal has
\* a GetLocal somewhere in the function: a set of a local that is read
\* nowhere (any more) is replaced by its value, while a set whose local is
\* read only before it stays
C17_UnreadRemoved ==
  ppc = "done" =>
    \A i \in 1..Len(program.functions) : \A L \in Locals(i) :
      GetsOf(result(i).body, L) = {} => SetsOf(result(i).body, L) = {}

\* C17 witness: a local assigned once and not read after that was the index
\* of a set, and after the pass it is the index of none
C17_SetGone ==
  /\ ppc = "done"
  /\ \E i \in 1..Len(program.functions) : \E L \in Locals(i) :
       /\ AssignedOnceUnreadAfter(original(i).body, L)
       /\ SetsOf(result(i).body, L) = {}

----------------------------------------------------------------------------
(* SimplifyLocals: block returns *)

\* the values are where the block return puts them: that of the set at the
\* end of the block is its last element, that of the set at each break is
\* carried by the break, and the sets are nops
Returned(v, e) ==
  /\ Last(v.arena[e.block].kids) = e.end.value
  /\ v.arena[e.end.set].k = "Nop"
  /\ \A j \in DOMAIN e.breaks :
       /\ v.arena[e.breaks[j].br].kids[1] = e.breaks[j].at.value
       /\ v.arena[e.breaks[j].at.set].k = "Nop"

\* the node is a set of the local whose value is the block
Wraps(v, n, e) ==
  /\ n # 0
  /\ v.arena[n].k = "SetLocal"
  /\ v.arena[n].idx = e.index
  /\ v.arena[n].kids = <<e.block>>

\* one set of the local in the body has the block as its value
WrappedIn(v, body, e) ==
  Cardinality({ n \in 1..Len(postOrder(v.arena, body)) :
                  Wraps(v, postOrder(v.arena, body)[n], e) }) = 1

\* the named blocks of the module a switch or a break with a value went to
BlockedBlocks ==
  { b \in DOMAIN program.arena :
      /\ program.arena[b].k = "Block"
      /\ program.arena[b].name # NullName
      /\ Targeted(expressionOf(program.arena, b), program.arena[b].name) }

\* C18 as stated: a block whose breaks and end each held a whole sinkable
\* set of one local is, when SimplifyLocals ends, rewritten for such a local
\* and wrapped in a set of it; a block a switch or a break with a value goes
\* to is as it was, and in no set
C18_AsStated ==
  ppc = "done" =>
    /\ \A k \in DOMAIN returns :
         ~returns[k].blocked =>
           \E j \in DOMAIN returns :
             /\ returns[j].block = returns[k].block
             /\ Returned(walker, returns[j])
             /\ WrappedIn(walker, walker.functions[current].body, returns[j])
    /\ \A b \in BlockedBlocks :
         /\ walker.arena[b] = program.arena[b]
         /\ \A n \in DOMAIN walker.arena :
              walker.arena[n].k = "SetLocal" => walker.arena[n].kids # <<b>>

\* the visit of a block: a block a switch or a break with a value goes to is
\* left as it is; otherwise, for the lowest local that has a whole sinkable
\* set at each break and at the end, a block that ends with a nop is
\* rewritten and the set of the local that wraps it takes its place, and a
\* block that does not is left as it is and marked to be enlarged
BlockReturnStep ==
  LET currp == Head(walker.stack).currp
      block == deref(walker, currp)
      found == blockReturns(walker, currp)
      left == /\ walker'.arena[block] = walker.arena[block]
              /\ deref(walker', currp) = block
  IN  /\ Targeted(expressionOf(walker.arena, block), walker.arena[block].name) => left
      /\ found # <<>> /\ ~found[1].blocked =>
           IF found[1].room
             THEN /\ Returned(walker', found[1])
                  /\ Wraps(walker', deref(walker', currp), found[1])
                  /\ walker'.self.anotherCycle
             ELSE /\ left
                  /\ walker'.self.blocksToEnlarge = Append(walker.self.blocksToEnlarge, block)

\* C18: when every break without a value noted for a named block and the end
\* of the block each hold a whole sinkable set of the same local, the visit
\* of the block rewrites it for the lowest such local if its last element is
\* a nop (the values go to the end and to the breaks, the sets are nops, a
\* set of the local wraps the block) and marks it to be enlarged if not; a
\* block a switch or a break with a value goes to is never rewritten
C18_RewrittenAtClose == [][AtVisit({"Block"}) => BlockReturnStep]_vars

\* C18 witness: a block was rewritten and is wrapped in the set
C18_Wrapped ==
  \E k \in DOMAIN returns :
    /\ returns[k].room
    /\ ~returns[k].blocked
    /\ Returned(walker, returns[k])
    /\ WrappedIn(walker, walker.func.body, returns[k])

----------------------------------------------------------------------------
(* The execution of a function body: what each get_local reads, and the
   calls made *)

\* an execution: the locals, the value of the last expression, the branch
\* that is being taken if one is, the get_locals executed with the values
\* they read, and the targets of the calls made, in their order
NewExecution(locals) ==
  [locals |-> locals, value |-> 0, branching |-> FALSE, target |-> NullName,
   carried |-> 0, reads |-> <<>>, calls |-> <<>>]

RECURSIVE execute(_, _, _)
RECURSIVE executeList(_, _, _, _)

\* the elements of a block, up to a branch
executeList(a, list, i, x) ==
  IF i > Len(list) \/ x.branching THEN x
  ELSE executeList(a, list, i + 1, execute(a, list[i], x))

\* one expression; a set_local has the value it sets, a break carries its
\* value to the block it names if it has no condition or the condition is
\* not 0, a loop body runs once, a call is made after its operands and
\* returns 0
execute(a, id, x) ==
  LET node == a[id]
      child(n, from) == IF node.kids[n] = 0 THEN from ELSE execute(a, node.kids[n], from)
      branch(from, name, carried) ==
        [from EXCEPT !.branching = TRUE, !.target = name, !.carried = carried]
      landed(from, names) ==
        IF from.branching /\ from.target \in names
          THEN [from EXCEPT !.branching = FALSE, !.value = from.carried]
          ELSE from
      set(from) ==
        IF from.branching THEN from ELSE [from EXCEPT !.locals[node.idx + 1] = from.value]
      chosen(from) ==
        IF from.branching THEN from
        ELSE IF from.value # 0 THEN child(2, from)
        ELSE child(3, from)
      broken(valued, from) ==
        IF from.branching THEN from
        ELSE IF node.kids[2] = 0 \/ from.value # 0
          THEN branch(from, node.name, IF node.kids[1] = 0 THEN 0 ELSE valued.value)
        ELSE [from EXCEPT !.value = valued.value]
      switched(from) ==
        IF from.branching THEN from
        ELSE branch(from, IF from.value + 1 \in DOMAIN node.targets
                            THEN node.targets[from.value + 1] ELSE node.name, 0)
      called(from) ==
        IF from.branching THEN from
        ELSE [from EXCEPT !.value = 0, !.calls = Append(@, node.name)]
  IN  IF x.branching THEN x
      ELSE CASE node.k = "Const" -> [x EXCEPT !.value = ToNat(node.lit)]
             [] node.k = "GetLocal" ->
                  [x EXCEPT !.value = x.locals[node.idx + 1],
                            !.reads = Append(@, <<id, x.locals[node.idx + 1]>>)]
             [] node.k = "SetLocal" -> set(child(1, x))
             [] node.k = "Drop" -> child(1, x)
             [] node.k = "Block" ->
                  landed(executeList(a, node.kids, 1, x), {node.name} \ {NullName})
             [] node.k = "Loop" -> landed(child(1, x), {node.name} \ {NullName})
             [] node.k = "If" -> chosen(child(1, x))
             [] node.k = "Break" -> broken(child(1, x), child(2, child(1, x)))
             [] node.k = "Switch" -> switched(child(2, x))
             [] node.k = "Call" -> called(executeList(a, node.kids, 1, x))
             [] OTHER -> x

\* the values a get_local read, in the order it read them
ReadsOf(x, get) ==
  LET mine == SelectSeq(x.reads, LAMBDA r : r[1] = get)
  IN  [n \in DOMAIN mine |-> mine[n][2]]

\* the values of the param the functions for SimplifyLocals are run on
ParamValues == {0, 1}

\* the function is run with the param given and the vars 0
Execution(a, func, param) ==
  execute(a, func.body, NewExecution(<<param>> \o [n \in DOMAIN func.vars |-> 0]))

\* the get_locals of the function that are get_locals after the pass too
KeptGets(i) ==
  { id \in DOMAIN program.arena :
      /\ program.arena[id].k = "GetLocal"
      /\ walker.arena[id].k = "GetLocal"
      /\ \E n \in DOMAIN postOrder(program.arena, program.functions[i].body) :
           postOrder(program.arena, program.functions[i].body)[n] = id
      /\ \E n \in DOMAIN postOrder(walker.arena, walker.functions[i].body) :
           postOrder(walker.arena, walker.functions[i].body)[n] = id }

\* the function has a conditional break
HasConditionalBreak(i) ==
  \E n \in Nodes(original(i).body) : n.k = "Break" /\ n.kids[2].k # "Null"

\* C3: after SimplifyLocals, in a function with a conditional break, each
\* get_local reads on every execution the values it read before the pass
C3_ReadsPreserved ==
  ppc = "done" =>
    \A i \in 1..Len(program.functions) :
      HasConditionalBreak(i) =>
        \A param \in ParamValues : \A get \in KeptGets(i) :
          ReadsOf(Execution(walker.arena, walker.functions[i], param), get)
            = ReadsOf(Execution(program.arena, program.functions[i], param), get)

----------------------------------------------------------------------------
(* CodePushing *)

\* a CodePushing before its first function: the analyzer, the gets seen so
\* far in the main traversal, anotherCycle
NewCodePushing ==
  [analyzer |-> [numGets |-> <<>>, numSets |-> <<>>, sfa |-> <<>>],
   numGetsSoFar |-> <<>>, anotherCycle |-> FALSE]

\* LocalAnalyzer::analyze: the gets and the sets of each local, and whether
\* it is single-first-assignment: not a param, with exactly one set, which
\* comes before every get in postorder
analyze(w) ==
  LET nodes == postOrder(w.arena, w.func.body)
      at(kind, index) ==
        { n \in 1..Len(nodes) : w.arena[nodes[n]].k = kind /\ w.arena[nodes[n]].idx = index }
      locals == 1..getNumLocals(w.func)
  IN  [w EXCEPT !.self.analyzer =
         [numGets |-> [i \in locals |-> Cardinality(at("GetLocal", i - 1))],
          numSets |-> [i \in locals |-> Cardinality(at("SetLocal", i - 1))],
          sfa |-> [i \in locals |->
                     /\ i > Len(w.func.params)
                     /\ Cardinality(at("SetLocal", i - 1)) = 1
                     /\ \A s \in at("SetLocal", i - 1) :
                          \A g \in at("GetLocal", i - 1) : s < g]]]

\* GetLocalCounter(function, ast): the gets of each local in the expression
getLocalCounter(w, id) ==
  LET nodes == postOrder(w.arena, id)
  IN  [i \in 1..getNumLocals(w.func) |->
         Cardinality({ n \in 1..Len(nodes) :
                         /\ w.arena[nodes[n]].k = "GetLocal"
                         /\ w.arena[nodes[n]].idx = i - 1 })]

\* EffectAnalyzer::mergeIn
mergeIn(e, other) ==
  [branches |-> e.branches \/ other.branches, calls |-> e.calls \/ other.calls,
   localsRead |-> e.localsRead \cup other.localsRead,
   localsWritten |-> e.localsWritten \cup other.localsWritten,
   readsMemory |-> e.readsMemory \/ other.readsMemory,
   writesMemory |-> e.writesMemory \/ other.writesMemory,
   traps |-> e.traps \/ other.traps]

\* Pusher::isPushable: a set of a local that is SFA and has all its gets seen
isPushable(w, curr) ==
  /\ w.arena[curr].k = "SetLocal"
  /\ w.self.analyzer.sfa[w.arena[curr].idx + 1]
  /\ w.self.numGetsSoFar[w.arena[curr].idx + 1]
       = w.self.analyzer.numGets[w.arena[curr].idx + 1]

\* Pusher::isPushPoint: an if or a break with a condition, a drop looked
\* through
isPushPoint(w, curr) ==
  LET inner == IF w.arena[curr].k = "Drop" THEN w.arena[curr].kids[1] ELSE curr
  IN  \/ w.arena[inner].k = "If"
      \/ w.arena[inner].k = "Break" /\ w.arena[inner].kids[2] # 0

\* s in the order opposite to its own
Reversed(s) == [n \in 1..Len(s) |-> s[Len(s) + 1 - n]]

\* optimizeSegment, at a set that cannot pass what stays behind it: the arm
\* of the if it can go into, 2 or 3, or 0: it has to pass the condition, and
\* the arm has to have all the gets of its local, the first arm looked at
\* first
armFor(w, iff, index, effects) ==
  LET allIn(arm) ==
        /\ arm # 0
        /\ getLocalCounter(w, arm)[index + 1] = w.self.analyzer.numGets[index + 1]
  IN  IF invalidates(effectsOf(w.arena, w.arena[iff].kids[1]), effects) THEN 0
      ELSE IF allIn(w.arena[iff].kids[2]) THEN 2
      ELSE IF allIn(w.arena[iff].kids[3]) THEN 3
      ELSE 0

\* optimizeSegment, one turn of its loop: what is not pushable adds to the
\* effects to pass; a pushable that can pass them goes to toPush; one that
\* cannot, the first time at an if, may go to an arm and leave a nop; else
\* it stays and adds to the effects to pass. blocked is history: each set
\* that could not pass, the arm it fits in and the arm it went to
segmentStep(block, iff, s, curr) ==
  LET nopped ==
        [allocNode(s.w, makeNop) EXCEPT !.arena[block].kids[s.i + 1] = Len(s.w.arena) + 1]
      noted(fits, arm) == Append(s.blocked, [set |-> curr, fits |-> fits, arm |-> arm])
      step(effects, fits, arm) ==
        IF ~isPushable(s.w, curr) THEN [s EXCEPT !.cumulativeEffects = mergeIn(@, effects)]
        ELSE IF ~invalidates(s.cumulativeEffects, effects)
          THEN [s EXCEPT !.toPush = Append(@, curr)]
        ELSE IF arm = 2
          THEN [s EXCEPT !.w = nopped, !.ifCondition = TRUE,
                         !.toPushToIfTrue = Append(@, curr), !.blocked = noted(fits, arm)]
        ELSE IF arm = 3
          THEN [s EXCEPT !.w = nopped, !.ifCondition = TRUE,
                         !.toPushToIfFalse = Append(@, curr), !.blocked = noted(fits, arm)]
        ELSE [s EXCEPT !.ifCondition = (iff # 0),
                       !.cumulativeEffects = mergeIn(@, effects),
                       !.blocked = noted(fits, arm)]
      tried(effects, fits) == step(effects, fits, IF s.ifCondition THEN 0 ELSE fits)
  IN  tried(effectsOf(s.w.arena, curr),
            IF iff # 0 /\ isPushable(s.w, curr)
              THEN armFor(s.w, iff, s.w.arena[curr].idx, effectsOf(s.w.arena, curr))
              ELSE 0)

RECURSIVE segmentLoop(_, _, _, _)
\* optimizeSegment, the loop from the push point backwards; it ends at
\* firstPushable
segmentLoop(block, firstPushable, iff, s) ==
  LET go(next, last) ==
        IF last THEN next
        ELSE IF s.i = 0 THEN [next EXCEPT !.w.ok = FALSE]
        ELSE segmentLoop(block, firstPushable, iff, [next EXCEPT !.i = @ - 1])
  IN  go(segmentStep(block, iff, s, s.w.arena[block].kids[s.i + 1]),
         s.i = firstPushable /\ isPushable(s.w, s.w.arena[block].kids[s.i + 1]))

RECURSIVE skipLoop(_, _, _, _, _)
\* optimizeSegment, first, skip past the pushed elements: from index i to the
\* push point, an element that is the next of toPush, seen from its end, is
\* skipped, any other moves down by the number skipped so far
skipLoop(list, toPush, i, pushPoint, skip) ==
  IF i > pushPoint THEN [list |-> list, skip |-> skip]
  ELSE IF skip < Len(toPush) /\ list[i + 1] = toPush[Len(toPush) - skip]
    THEN skipLoop(list, toPush, i + 1, pushPoint, skip + 1)
  ELSE skipLoop(IF skip > 0 THEN [list EXCEPT ![i - skip + 1] = list[i + 1]] ELSE list,
                toPush, i + 1, pushPoint, skip)

\* writeOut that writes the skipped elements the other way round
writeOutBackwards(list, toPush, pushPoint) ==
  [n \in 1..Len(list) |->
     IF pushPoint - Len(toPush) < n - 1 /\ n - 1 <= pushPoint
       THEN toPush[n - 1 - (pushPoint - Len(toPush))] ELSE list[n]]

\* optimizeSegment, write out the skipped elements: list[pushPoint - i] =
\* toPush[i]
writeOut(list, toPush, pushPoint) ==
  [n \in 1..Len(list) |->
     IF pushPoint - Len(toPush) < n - 1 /\ n - 1 <= pushPoint
       THEN toPush[pushPoint - n + 2] ELSE list[n]]

\* pushInto that leaves the arm as it is
pushIntoNothing(w, toPush, slot) == w

\* optimizeSegment, pushInto: the arm is a new block of the sets, in their
\* order, and the arm
pushInto(w, toPush, slot) ==
  IF toPush = <<>> THEN w
  ELSE assign(allocNode(w, makeBlock(NullName, Append(Reversed(toPush), deref(w, slot)))),
              slot, Len(w.arena) + 1)

\* Pusher::optimizeSegment: the effects of the push point, its branching left
\* out, are what a set has to pass; the sets that can are taken out of the
\* segment and put, in their order, right after the push point's new place;
\* those for the arms go into the arms. Gives the index to go on from and
\* whether an arm got a set; segment is history: what the call found and did
optimizeSegment(w, block, firstPushable, pushPoint) ==
  LET iffOf(pushPointExpr) == IF w.arena[pushPointExpr].k = "If" THEN pushPointExpr ELSE 0
      inArms(s, iff, v) ==
        IF iff = 0 THEN v
        ELSE pushInto(pushInto(v, s.toPushToIfTrue, Slot(iff, 2)),
                      s.toPushToIfFalse, Slot(iff, 3))
      segment(s, iff, v, rewrote) ==
        [block |-> block, firstPushable |-> firstPushable, pushPoint |-> pushPoint,
         iff |-> iff, before |-> w.arena[block].kids, after |-> v.arena[block].kids,
         toPush |-> s.toPush, toPushToIfTrue |-> s.toPushToIfTrue,
         toPushToIfFalse |-> s.toPushToIfFalse, blocked |-> s.blocked,
         rewrote |-> rewrote, ok |-> v.ok]
      written(s, iff, skipped) ==
        IF skipped.skip # Len(s.toPush) THEN [s.w EXCEPT !.ok = FALSE]
        ELSE inArms(s, iff, [s.w EXCEPT !.arena[block].kids =
                               writeOut(skipped.list, s.toPush, pushPoint)])
      given(s, iff, v, rewrote) ==
        [w |-> v, next |-> IF rewrote THEN pushPoint - Len(s.toPush) + 1 ELSE pushPoint + 1,
         pushedIntoIf |-> rewrote /\ (s.toPushToIfTrue # <<>> \/ s.toPushToIfFalse # <<>>),
         segment |-> segment(s, iff, v, rewrote)]
      done(s, iff) ==
        IF ~s.w.ok \/ (s.toPush = <<>> /\ s.toPushToIfTrue = <<>> /\ s.toPushToIfFalse = <<>>)
          THEN given(s, iff, s.w, FALSE)
        ELSE given(s, iff,
                   written(s, iff, skipLoop(s.w.arena[block].kids, s.toPush,
                                            firstPushable, pushPoint, 0)),
                   TRUE)
      from(pushPointExpr) ==
        done(segmentLoop(block, firstPushable, iffOf(pushPointExpr),
               [w |-> w, i |-> pushPoint - 1,
                cumulativeEffects |->
                  [effectsOf(w.arena, pushPointExpr) EXCEPT !.branches = FALSE],
                toPush |-> <<>>, ifCondition |-> FALSE,
                toPushToIfTrue |-> <<>>, toPushToIfFalse |-> <<>>, blocked |-> <<>>]),
             iffOf(pushPointExpr))
  IN  from(w.arena[block].kids[pushPoint + 1])

RECURSIVE pusherLoop(_, _, _, _, _)
\* Pusher::Pusher, from index i on: a segment goes from the first pushable
\* to the first push point after it; the last element is not looked at
pusherLoop(p, block, relevant, i, firstPushable) ==
  LET after(segment) ==
        pusherLoop([w |-> segment.w,
                    pushedIntoIf |-> p.pushedIntoIf \/ segment.pushedIntoIf,
                    segments |-> Append(p.segments, segment.segment)],
                   block, relevant, segment.next, -1)
      at(curr) ==
        IF firstPushable = -1 /\ isPushable(p.w, curr)
          THEN pusherLoop(p, block, relevant, i + 1, i)
        ELSE IF firstPushable # -1 /\ isPushPoint(p.w, curr)
          THEN after(optimizeSegment(p.w, block, firstPushable, i))
        ELSE pusherLoop(p, block, relevant, i + 1, firstPushable)
  IN  IF i >= relevant \/ ~p.w.ok THEN p ELSE at(p.w.arena[block].kids[i + 1])

\* Pusher(block, ..); segments is history: the calls of optimizeSegment
Pusher(w, block) ==
  pusherLoop([w |-> w, pushedIntoIf |-> FALSE, segments |-> <<>>], block,
             Len(w.arena[block].kids) - 1, 0, -1)

\* CodePushing::visitGetLocal
cpVisitGetLocal(w, currp) ==
  [w EXCEPT !.self.numGetsSoFar[w.arena[deref(w, currp)].idx + 1] = @ + 1]

\* CodePushing::visitBlock: blocks of three elements and more
cpVisitBlock(w, currp) ==
  LET pushed(pusher) == [pusher.w EXCEPT !.self.anotherCycle = @ \/ pusher.pushedIntoIf]
  IN  IF Len(w.arena[deref(w, currp)].kids) < 3 THEN w
      ELSE pushed(Pusher(w, deref(w, currp)))

\* the calls of optimizeSegment visitBlock makes
segmentsOf(w, currp) ==
  IF Len(w.arena[deref(w, currp)].kids) < 3 THEN <<>>
  ELSE Pusher(w, deref(w, currp)).segments

\* doWalkFunction: prepare to walk
prepareToWalk(w) ==
  [w EXCEPT !.self.anotherCycle = FALSE,
            !.self.numGetsSoFar = [i \in 1..getNumLocals(w.func) |-> 0],
            !.stack = <<Task("scan", BodySlot)>>]

----------------------------------------------------------------------------
(* Functions for CodePushing: local 0 is a param, locals 1 and 2 are vars *)

SetCall(index) == makeSetLocal(index, CallP)
IfX(ifTrue, ifFalse) == makeIf(GetX, ifTrue, ifFalse)

\* a set of a constant before a br_if
CP_br_if == SimplifyFunction(NameA, <<Out(<<SetTo(1, 1), LeaveIf, Use(1)>>), makeNop>>)

\* a set of a call before a br_if
CP_call_br_if == SimplifyFunction(NameA, <<Out(<<SetCall(1), LeaveIf, Use(1)>>), makeNop>>)

\* a set before an if that does not read the local
CP_if == SimplifyFunction(NameA, <<SetTo(1, 1), IfX(makeNop, Null), Use(1)>>)

\* a set of a call before an if that calls
CP_call_if_calls ==
  SimplifyFunction(NameA, <<SetCall(1), IfX(makeDrop(CallV), Null), Use(1)>>)

\* a set of a call before an if that does not read the local
CP_call_if == SimplifyFunction(NameA, <<SetCall(1), IfX(makeNop, Null), Use(1)>>)

\* the local is read in the first arm only
CP_if_true == SimplifyFunction(NameA, <<SetTo(1, 1), IfX(Use(1), Null), makeNop>>)

\* a set of a call, the local read in the first arm only
CP_call_if_true == SimplifyFunction(NameA, <<SetCall(1), IfX(Use(1), Null), makeNop>>)

\* the local is read in the second arm only
CP_if_false == SimplifyFunction(NameA, <<SetTo(1, 1), IfX(makeNop, Use(1)), makeNop>>)

\* the local is read in both arms
CP_if_both == SimplifyFunction(NameA, <<SetTo(1, 1), IfX(Use(1), Use(1)), makeNop>>)

\* two sets before a br_if
CP_two ==
  SimplifyFunction(NameA,
    <<Out(<<SetTo(1, 1), SetTo(2, 2), LeaveIf, Use(1), Use(2)>>), makeNop>>)

\* two sets, one for each arm
CP_two_arms ==
  SimplifyFunction(NameA, <<SetTo(1, 1), SetTo(2, 2), IfX(Use(1), Use(2)), makeNop>>)

\* two br_ifs to pass
CP_again ==
  SimplifyFunction(NameA,
    <<Out(<<SetTo(1, 1), LeaveIf, LeaveIf, Use(1), makeNop>>), makeNop>>)

\* the local is set twice
CP_not_sfa ==
  SimplifyFunction(NameA, <<Out(<<SetTo(1, 1), SetTo(1, 2), LeaveIf, Use(1)>>), makeNop>>)

\* the local is read after the block as well
CP_read_after ==
  SimplifyFunction(NameA, <<Out(<<SetTo(1, 1), LeaveIf, Use(1)>>), Use(1)>>)

\* the value read is written between the set and the br_if
CP_blocked ==
  SimplifyFunction(NameA,
    <<Out(<<makeSetLocal(1, GetX), SetTo(0, 5), LeaveIf, Use(1)>>), makeNop>>)

\* the push point is the drop of an if
CP_drop_if ==
  SimplifyFunction(NameA,
    <<SetTo(1, 1), makeDrop(TypedIf(GetX, I32C(1), I32C(2))), Use(1)>>)

\* a block of two elements
CP_small == SimplifyFunction(NameA, <<SetTo(1, 1), Use(1)>>)

\* two sets for the first arm
CP_same_arm ==
  SimplifyFunction(NameA,
    <<SetTo(1, 1), SetTo(2, 2), IfX(makeBlock(NullName, <<Use(1), Use(2)>>), Null),
      makeNop>>)

\* the set next to the if is read in both arms, the one before it in the
\* first arm only
CP_second_fits ==
  SimplifyFunction(NameA,
    <<SetTo(1, 1), SetTo(2, 2), IfX(makeBlock(NullName, <<Use(1), Use(2)>>), Use(2)),
      makeNop>>)

\* one set passes the if, the other goes into it
CP_past_and_into ==
  SimplifyFunction(NameA,
    <<SetTo(1, 1), SetTo(2, 2), makeNop, IfX(Use(1), Null), Use(2)>>)

PushingFunctions ==
  <<CP_br_if, CP_call_br_if, CP_if, CP_call_if_calls, CP_call_if, CP_if_true,
    CP_call_if_true, CP_if_false, CP_if_both, CP_two, CP_two_arms, CP_again,
    CP_not_sfa, CP_read_after, CP_blocked, CP_drop_if, CP_small, CP_same_arm,
    CP_second_fits, CP_past_and_into>>

PushingModules ==
  { allocateFunctions([arena |-> <<>>, functions |-> <<>>], <<PushingFunctions[i]>>) :
      i \in DOMAIN PushingFunctions }

----------------------------------------------------------------------------
(* CodePushing on a module *)

PushingInit ==
  /\ program \in PushingModules
  /\ current = 0
  /\ walker = NewWalker(program, NewCodePushing)
  /\ alone = NewWalker(program, NewCodePushing)
  /\ finished = <<>>
  /\ ppc = "function"
  /\ CountIdle
  /\ refine = <<>>
  /\ returns = <<>>
  /\ CodecIdle

\* doWalkFunction, up to the first task of the first cycle
CPWalkFunction ==
  /\ ppc = "function"
  /\ current < Len(program.functions)
  /\ current' = current + 1
  /\ walker' = prepareToWalk(analyze(walkFunction(walker, current + 1)))
  /\ alone' = prepareToWalk(analyze(walkFunction(NewWalker(program, NewCodePushing),
                                                 current + 1)))
  /\ ppc' = "walk"
  /\ UNCHANGED <<lebVars, codecVars, countVars, refine, returns, program, finished>>

CPScan ==
  /\ AtTask("scan")
  /\ RunTask(LAMBDA w, currp : pushTasks(w, postScan(w, currp)))

CPVisitGetLocal ==
  /\ AtVisit({"GetLocal"})
  /\ RunTask(cpVisitGetLocal)

\* visitBlock; the calls of optimizeSegment go to the history
CPVisitBlock ==
  /\ AtVisit({"Block"})
  /\ walker' = cpVisitBlock(popTask(walker), Head(walker.stack).currp)
  /\ alone' = cpVisitBlock(popTask(alone), Head(alone.stack).currp)
  /\ returns' = returns \o segmentsOf(walker, Head(walker.stack).currp)
  /\ UNCHANGED <<lebVars, codecVars, countVars, refine, program, current, finished, ppc>>

\* the visits CodePushing leaves to Visitor do nothing
CPVisitOther ==
  /\ AtVisit({"Nop", "If", "Loop", "Break", "Switch", "Call", "SetLocal", "Load", "Store",
              "Const", "Unary", "Binary", "Select", "Return", "Drop", "Unreachable"})
  /\ RunTask(LAMBDA w, currp : w)

\* doWalkFunction: the walk is over and something went into an if
CPAnotherCycle ==
  /\ ppc = "walk"
  /\ walker.ok
  /\ walker.stack = <<>>
  /\ walker.self.anotherCycle
  /\ walker' = prepareToWalk(walker)
  /\ alone' = prepareToWalk(alone)
  /\ UNCHANGED <<lebVars, codecVars, countVars, refine, returns, program, current,
                 finished, ppc>>

\* doWalkFunction: the walk is over and nothing went into an if
CPEndFunction ==
  /\ walker.ok => ~walker.self.anotherCycle
  /\ EndFunction

PushingNext ==
  \/ CPWalkFunction
  \/ CPScan
  \/ CPVisitGetLocal
  \/ CPVisitBlock
  \/ CPVisitOther
  \/ CPAnotherCycle
  \/ CPEndFunction

SpecPush == PushingInit /\ [][PushingNext]_vars

----------------------------------------------------------------------------
(* CodePushing: the calls made *)

\* a set_local of the function has a call in its value
HasCallInSet(i) ==
  \E n \in Nodes(original(i).body) :
    n.k = "SetLocal" /\ \E v \in Nodes(n.kids[1]) : v.k = "Call"

----------------------------------------------------------------------------
(* CodePushing: the rewrite of a segment *)

\* the segments optimizeSegment rewrote
Rewrites == { k \in 1..Len(returns) : returns[k].rewrote }

\* the place of an element in a list, 0 if it is not there
PlaceIn(list, id) ==
  IF \E n \in 1..Len(list) : list[n] = id
    THEN CHOOSE n \in 1..Len(list) : list[n] = id ELSE 0

\* the list without the sets that were pushed past the push point
Unpushed(e, list) ==
  SelectSeq(list, LAMBDA id : \A n \in 1..Len(e.toPush) : e.toPush[n] # id)

\* the set went into an arm of the if
IntoArm(e, id) ==
  \/ \E n \in 1..Len(e.toPushToIfTrue) : e.toPushToIfTrue[n] = id
  \/ \E n \in 1..Len(e.toPushToIfFalse) : e.toPushToIfFalse[n] = id

----------------------------------------------------------------------------
(* CodePushing: into the arms of an if *)

\* the place of a node in the expression, children first; 0 if it is not
\* there
PlaceUnder(a, root, id) == PlaceIn(postOrder(a, root), id)

----------------------------------------------------------------------------
(* DropReturnValues: breaks with values *)

RECURSIVE StackOf(_, _, _)
\* the expressions from the root down to the node, as the expression stack
\* holds them when the node is visited
StackOf(a, root, id) ==
  IF id = root THEN <<root>>
  ELSE Append(StackOf(a, root, CHOOSE n \in 1..Len(a) :
                                 \E j \in 1..Len(a[n].kids) : a[n].kids[j] = id),
              id)

\* the breaks with a value the function had
ValuedBreaks(i) ==
  { id \in 1..Len(program.arena) :
      /\ program.arena[id].k = "Break"
      /\ program.arena[id].kids[1] # 0
      /\ PlaceUnder(program.arena, program.functions[i].body, id) > 0 }

\* how deep in the stack of the break the block or loop it targets is
TargetOf(i, br) ==
  LET stack == StackOf(program.arena, program.functions[i].body, br)
      names(n) == program.arena[stack[n]].k \in {"Block", "Loop"}
                    /\ program.arena[stack[n]].name = program.arena[br].name
  IN  CHOOSE n \in 1..Len(stack) : names(n) /\ \A m \in 1..Len(stack) : names(m) => m <= n

\* the result of the block or loop the break targets was used
TargetUsed(i, br) ==
  isResultUsed([arena |-> program.arena, func |-> program.functions[i]],
               SubSeq(StackOf(program.arena, program.functions[i].body, br),
                      1, TargetOf(i, br)))

\* the pass moved the value of the break into a Drop just before the break
ValueDropped(br) ==
  /\ walker.arena[br].kids[1] = 0
  /\ \E n \in 1..Len(walker.arena) :
       /\ walker.arena[n].k = "Block"
       /\ Len(walker.arena[n].kids) = 2
       /\ walker.arena[n].kids[2] = br
       /\ walker.arena[walker.arena[n].kids[1]].k = "Drop"
       /\ walker.arena[walker.arena[n].kids[1]].kids[1] = program.arena[br].kids[1]

\* C21: after DropReturnValues the value of a break is in a Drop just before
\* the break exactly when the result of the block or loop the break targets
\* was not used; when it was used the break has its value as before
C21_DroppedWhenTargetUnused ==
  ppc = "done" =>
    \A i \in 1..Len(program.functions) : \A br \in ValuedBreaks(i) :
      /\ ValueDropped(br) <=> ~TargetUsed(i, br)
      /\ TargetUsed(i, br) => walker.arena[br].kids[1] = program.arena[br].kids[1]

----------------------------------------------------------------------------
(* SimplifyLocals: the fragments of the sinkables *)

\* the merge that the task at the top of the stack is about to make passes
\* the assertion of each add
NextMergePasses ==
  LET task == Head(walker.stack)
      closing(v) == mergeAsserts(v.self.sinkables, Last(v.self.ifStack))
  IN  /\ AtTask("noteIfTrue") /\ walker.arena[deref(walker, task.currp)].kids[3] = 0
           => closing(walker)
      /\ AtTask("noteIfFalse") => closing(optimizeIfReturn(popTask(walker), task.currp))

\* C23: for every nesting depth of ifs, the top of the fragment of a sinkable
\* never exceeds its bottom, the fragment is one once every if has been left,
\* and no add of Sinkables::merge fails the assertion on the product of the
\* bottoms
C23_FragmentsExact ==
  ppc = "walk" =>
    /\ \A i \in DOMAIN walker.self.sinkables :
         /\ indexLeq(walker.self.sinkables[i].frag.top, walker.self.sinkables[i].frag.bottom)
         /\ walker.self.ifStack = <<>> => one(walker.self.sinkables[i].frag)
    /\ NextMergePasses

----------------------------------------------------------------------------
(* SimplifyLocals: sets and the arms of ifs *)

\* the ifs the walk is in an arm of: those with a noteIfTrue or a noteIfFalse
\* still to run, and the noteIfCondition done
OpenIfs ==
  LET waits(m, fs) == walker.stack[m].f \in fs
      past(m) == \A n \in 1..Len(walker.stack) :
                   waits(n, {"noteIfCondition"})
                     => walker.stack[n].currp # walker.stack[m].currp
  IN  { deref(walker, walker.stack[m].currp) :
          m \in { n \in 1..Len(walker.stack) :
                    waits(n, {"noteIfTrue", "noteIfFalse"}) /\ past(n) } }

\* while an arm of an if is walked, no sinkable set from outside the if is
\* whole
SplitInArms ==
  ppc = "walk" /\ walker.ok =>
    \A iff \in OpenIfs : \A index \in DOMAIN walker.self.sinkables :
      LET entry == walker.self.sinkables[index]
      IN  PlaceUnder(walker.arena, iff, deref(walker, entry.item)) = 0 => ~one(entry.frag)

\* the visit of a get that puts a set in its place finds the set whole and,
\* for each if the get is in an arm of, in the same arm
SunkWithinArm ==
  LET get == deref(walker, Head(walker.stack).currp)
      index == walker.arena[get].idx
      ifs == { id \in 1..Len(walker.arena) : walker.arena[id].k = "If" }
      within(set) ==
        \A iff \in ifs : \A arm \in {2, 3} :
          PlaceUnder(walker.arena, walker.arena[iff].kids[arm], get) # 0
            => PlaceUnder(walker.arena, walker.arena[iff].kids[arm], set) # 0
  IN  AtVisit({"GetLocal"}) /\ walker'.arena # walker.arena =>
        /\ index \in DOMAIN walker.self.sinkables
        /\ one(walker.self.sinkables[index].frag)
        /\ within(deref(walker, walker.self.sinkables[index].item))
        /\ deref(walker', Head(walker.stack).currp)
             = deref(walker, walker.self.sinkables[index].item)

----------------------------------------------------------------------------
(* SimplifyLocals: the cycles of walk *)

\* the function's expression is not what it was before the step
TreeChanges ==
  expressionOf(walker'.arena, walker'.func.body) # expressionOf(walker.arena, walker.func.body)

\* anotherCycle becomes true in a task of the main operation only where the
\* task changes the function: the visit of a get (a set is sunk), visitPost (a
\* dead set is removed), the visit of a block or noteIfFalse (sets are
\* coalesced into the result)
AskedBecauseChanged ==
  /\ ppc = "walk" /\ walker.stack # <<>>
  /\ ~walker.self.anotherCycle /\ walker'.self.anotherCycle
  => /\ TreeChanges
     /\ \/ AtVisit({"GetLocal", "Block"})
        \/ AtTask("visitPost")
        \/ AtTask("noteIfFalse")

\* the end of a cycle: another one starts only if the main operation asked for
\* it or a block or an if is enlarged, which changes the function; if not,
\* the loop ends
EndsUnlessChanged ==
  ppc = "walk" /\ walker.ok /\ walker.stack = <<>> =>
    LET marked == walker.self.blocksToEnlarge \o walker.self.ifsToEnlarge
    IN  /\ ppc' = "walk" <=> walker.self.anotherCycle \/ marked # <<>>
        /\ ppc' = "count" <=> ~(walker.self.anotherCycle \/ marked # <<>>)
        /\ marked # <<>> => TreeChanges
        /\ walker'.self.enlarged = walker.self.enlarged \o marked

\* the places of the history of enlargements that hold nodes of the kind
EnlargedOf(kinds) ==
  { n \in 1..Len(walker.self.enlarged) :
      walker.arena[walker.self.enlarged[n]].k \in kinds }

\* no node of the kinds was enlarged twice
EnlargedOnce(kinds) ==
  \A m, n \in EnlargedOf(kinds) :
    walker.self.enlarged[m] = walker.self.enlarged[n] => m = n

\* C24 as stated: the cycle loop of SimplifyLocals terminates; a cycle asks
\* for another only if it sank a set, removed a dead set, coalesced sets into
\* a block or if result or appended a nop to a block or an arm; each block and
\* each if is enlarged at most once; a cycle that changes nothing ends the loop
C24_AsStated ==
  /\ <>(ppc = "done")
  /\ [][/\ AskedBecauseChanged
        /\ EndsUnlessChanged
        /\ ppc = "walk" => EnlargedOnce({"Block", "If"})]_vars

\* C24, amended: the same, with each block enlarged at most once; an if can
\* be enlarged again
C24_CyclesEnd ==
  /\ <>(ppc = "done")
  /\ [][/\ AskedBecauseChanged
        /\ EndsUnlessChanged
        /\ ppc = "walk" => EnlargedOnce({"Block"})]_vars

\* C24, the case: cycles have ended with the arms of the same if enlarged, and
\* the pass has come to its end
C24_EnlargedAndDone ==
  /\ ppc = "done"
  /\ Cardinality(EnlargedOf({"If"})) = 2

----------------------------------------------------------------------------
(* The Postprocessor: table bytes *)

\* the Postprocessor is about to write an instruction that has immediates
PostEmits ==
  /\ wpc = "body"
  /\ pass = "post"
  /\ fw.work # <<>>
  /\ Head(fw.work).t = "emit"
  /\ Head(fw.work).imms # <<>>

\* C25: the second encoding pass writes a table byte for an instruction only
\* when the opcode and the immediates of the instruction are those of the
\* table entry, bit for bit
C25_TableByteIdentical ==
  [][PostEmits /\ Len(o') = Len(o) + 1 =>
       /\ tableUsed(opcodeTable, o'[Len(o')])
       /\ tableEntry(opcodeTable, o'[Len(o')])
            = OpcodeEntry(Head(fw.work).op, Head(fw.work).imms)]_vars

\* the opcode of the instruction the writer is about to write, -1 if the next
\* item of the body writes none
NextOpcode ==
  LET opcode(item) ==
        CASE item.t = "emit" -> item.op
          [] item.t = "br" -> emitBreak(item.node, 0).op
          [] item.t = "switch" -> emitSwitch(item.node).op
          [] OTHER -> -1
  IN  IF wpc = "body" /\ fw.work # <<>> THEN opcode(Head(fw.work)) ELSE -1

\* C26: every byte the opcode table gives an entry is the byte of no opcode
\* the trial encoding wrote, and no two entries have the same byte; in the
\* second pass no opcode about to be written is a byte of the table, and
\* the reader has the table the writer made
C26_TableBytesFree ==
  pass = "post" =>
    /\ \A i \in 1..Len(opcodeTable) :
         /\ opcodeInfo.freqs[opcodeTable[i].code] = 0
         /\ \A j \in 1..Len(opcodeTable) :
              i # j => /\ opcodeTable[i].code # opcodeTable[j].code
                       /\ opcodeTable[i].entry # opcodeTable[j].entry
    /\ NextOpcode >= 0 => ~tableUsed(opcodeTable, NextOpcode)
    /\ rd.status = "done" /\ rd.ok => rd.opcodeTable = opcodeTable

\* C26, the case: the second pass has written the module with a table of two
\* entries or more, and the reader has read it
C26_TableInUse ==
  /\ pass = "post"
  /\ Len(opcodeTable) >= 2
  /\ rd.status = "done"
  /\ rd.ok

----------------------------------------------------------------------------
(* C27: the reader at the end of a function body *)

\* the position just past the body of function number k (from 1), as the bytes
\* declare it: the size the writer patched in is five bytes at at, and the body
\* follows
DeclaredEnd(k) ==
  LET bodies == SelectSeq(patches, LAMBDA p : p.what = "function")
      body == bodies[Len(bodies) - Len(wasm.functions) + k]
  IN  body.at + 5 + Len(body.written)

\* the step of readFunctions in which the processExpressions of a body returns
BodyEnds == rd.status = "body" /\ rd'.status # "body"

\* the reader between two functions, or after the last
BetweenBodies(r) ==
  /\ r.ok
  /\ r.pos = r.endOfFunction
  /\ r.pos = DeclaredEnd(r.fnIndex)
  /\ r.breakStack = <<>>
  /\ r.expressionStack = <<>>

\* C27: when the reader has read the body of a function, it is at the position
\* just past the declared size of the body, and the break stack and the
\* expression stack are empty; the next function is begun in that state
C27_BodyReadToItsEnd ==
  /\ [][BodyEnds => rd'.fnIndex = rd.fnIndex + 1 /\ BetweenBodies(rd')]_vars
  /\ [](rd.status = "function" /\ rd.fnIndex > 0 => BetweenBodies(rd))

\* C27, the case: a body with a block in it has been read, and another function
\* is to be read next
C27_NextFunctionBegins ==
  /\ rd.status = "function"
  /\ rd.fnIndex > 0
  /\ rd.functions[rd.fnIndex].body.k = "Block"
  /\ BetweenBodies(rd)

----------------------------------------------------------------------------
(* C28: the order of the exports *)

\* the index (from 0) of the function named name among functions
IndexOfFunction(functions, name) ==
  CHOOSE i \in 0..(Len(functions) - 1) : functions[i + 1].name = name

\* export number i (from 1) of the module read is export number j of the module
\* written: the same name, for the function at the same index
SameExport(i, j) ==
  /\ rd.exports[i].name = wasm.exports[j].name
  /\ IndexOfFunction(rd.functions, rd.exports[i].value)
       = IndexOfFunction(wasm.functions, wasm.exports[j].value)

\* C28: the module read has the exports of the module written in the order
\* they were written in, each naming the function at the index written for it
C28_ExportOrderKept ==
  rd.status = "done" /\ rd.ok =>
    /\ Len(rd.exports) = Len(wasm.exports)
    /\ \A i \in 1..Len(rd.exports) : SameExport(i, i)

====
